---- MODULE Spec2Model ----
(***************************************************************************)
(* Model of the analysis engine of TradingAgents-CN:                       *)
(*   backend/analysis-engine/app/graphs/trading_graph.py  (TradingGraph)   *)
(*   backend/analysis-engine/app/graphs/agent_nodes.py    (AgentNodes)     *)
(* One TradingGraph instance, used by one caller: update_config,           *)
(* initialize and analyze_stock are called one after the other; inside     *)
(* analyze_stock the compiled stage graph is traversed node by node.       *)
(*                                                                         *)
(* conditional_logic.py and graph_state.py are imported by                 *)
(* trading_graph.py but are not part of the available sources; the two     *)
(* routing functions and the per-stage round bookkeeping are modelled from *)
(* the specification (section 4.4) and are marked as such below.           *)
(***************************************************************************)
EXTENDS Integers, Sequences, FiniteSets, TLC

VARIABLES
    config,            \* TradingGraph.config (the keys the graph depends on)
    conditional_logic, \* TradingGraph.conditional_logic: None or its two budgets
    compiled_graph,    \* TradingGraph.compiled_graph: None or the graph as built
    pc,                \* position of the caller inside analyze_stock
    node,              \* next node of the compiled graph to execute
    state,             \* the GraphState threaded through the current traversal
    step_count,        \* supersteps executed by the current traversal
    executed,          \* per node: executions in the current traversal
    streamed,          \* per node: executions in the finished astream traversal
    last,              \* the last stage execution: node, outcome, state before
    progress,          \* percents analyze_stock passed to progress_callback
    result,            \* value returned by analyze_stock (None until then)
    updates,           \* number of update_config calls so far
    call,              \* the latest recorded update_config call: its argument
                       \* and the config it found (None when not recorded)
    rpc,               \* position of perform_stock_analysis (main.py); "none"
                       \* when the TradingGraph is driven directly
    stored,            \* progress_percentage values written for the request
    monitor,           \* steps the background progress monitor has reported
    analysis,          \* what Redis holds for the analysis_id: the status of
                       \* analysis_progress, whether analysis_result exists,
                       \* and whether cancel_analysis has been called
    agents,            \* AgentManager.agents: the ids in the local index
    agent_types,       \* AgentManager.agent_types: per type, the list of agents
    directory,         \* the agent:{id} keys present in Redis
    durable,           \* per agent id, its documents in the "agents" collection
    status,            \* per agent object, its AgentStatus
    strategy,          \* LoadBalancer.strategy
    round_robin_counters, \* LoadBalancer.round_robin_counters, per type
    success_rate,      \* per agent object, its metrics.success_rate
    inflight,          \* the agents a dispatched task is running on
    registering,       \* the register_agent call suspended in its Redis or
                       \* database write (None when there is none)
    mcall,             \* the latest completed AgentManager call: operation,
                       \* arguments, injected outcomes, return value and the
                       \* registry it found (None before the first)
    calls,             \* number of AgentManager calls so far
    candidates,        \* the list handed to LoadBalancer.select_agent
    picks,             \* the agents select_agent has returned, in order
    health,            \* the health_check call under way: its position in
                       \* the agents, its healthy_count, what it returned
    loop,              \* the health-check task of the manager
    peer               \* a second analysis request running at the same time:
                       \* the traversal of its own TradingGraph

\* the request of main.py that drives the engine
requestVars == <<rpc, stored, monitor, analysis>>

\* the agent service (agent_manager.py)
registryVars == <<agents, agent_types, directory, durable, status, strategy,
                  round_robin_counters, success_rate, inflight, registering, mcall, calls, candidates,
                  picks, health, loop>>

\* the TradingGraph instance and the analyze_stock call
engineVars == <<config, conditional_logic, compiled_graph, pc, node, state,
                step_count, executed, streamed, last, progress, result,
                updates, call>>

vars == <<engineVars, requestVars, registryVars, peer>>

\* Python's None and Optional values: None is the empty sequence, a present
\* value x is the one-element sequence <<x>>.
None == <<>>
Some(x) == <<x>>

(***************************************************************************)
(* Bounds of the model.                                                    *)
(***************************************************************************)
\* at most this many worker failures are injected into one traversal
MaxErrors == 1
\* at most this many update_config calls on the instance
MaxUpdates == 1
\* at most this many worker failures in one traversal of SpecErrors
MaxStageErrors == 2
\* largest round count the two routing functions are evaluated at on their own
MaxCount == 8
\* at most this many register_agent / unregister_agent calls on one manager
MaxCalls == 3
\* at most this many select_agent calls on one balancer
MaxSelects == 6
\* at most this many execute_task calls on one manager
MaxTasks == 2
\* at most this many agents are ERROR or OFFLINE at a time
MaxFaults == 1
\* at most this many cycles of the health-check loop
MaxCycles == 2
\* an agent has at most this many current tasks when the balancer is asked
MaxLoad == 2
\* success rates are told apart by their order only: the grades 0..MaxRate
MaxRate == 2

(***************************************************************************)
(* Program constants.                                                      *)
(***************************************************************************)
\* trading_graph.py:392  config = {"recursion_limit": 100}
RecursionLimit == 100

Analysts == {"market", "fundamentals", "news", "social"}

\* trading_graph.py:38  default selected_analysts
DefaultAnalysts == <<"market", "fundamentals", "news", "social">>

\* The analyst lists a request can carry (requests.py:52-64 builds the list
\* from four flags in this fixed order), plus one list in another order,
\* which update_config accepts as it is.
AnalystLists ==
    { <<"market">>, <<"social">>,
      <<"market", "fundamentals">>, <<"news", "social">>,
      <<"fundamentals", "news", "social">>,
      DefaultAnalysts,
      <<"social", "market">> }

Depths == 1..5

\* agent_nodes.py:172-177 / trading_graph.py:230  node_name = f"{type}_analyst"
AnalystNode(a) ==
    CASE a = "market" -> "market_analyst"
      [] a = "fundamentals" -> "fundamentals_analyst"
      [] a = "news" -> "news_analyst"
      [] a = "social" -> "social_analyst"

AnalystNodes == { AnalystNode(a) : a \in Analysts }
DebateNodes == {"bull_researcher", "bear_researcher"}
RiskNodes == {"risky_analyst", "safe_analyst", "neutral_analyst"}
END == "__end__"
Nodes == {"test_start"} \cup AnalystNodes \cup DebateNodes
         \cup {"research_manager", "trader", "risk_manager"} \cup RiskNodes

(***************************************************************************)
(* TradingGraph.__init__ and update_config                                 *)
(***************************************************************************)
\* trading_graph.py:35-45  default_config, copied into config
DefaultConfig ==
    [ selected_analysts |-> DefaultAnalysts,
      max_debate_rounds |-> 3,
      max_risk_rounds   |-> 2,
      research_depth    |-> 3 ]

\* A depth table whose last row allows four rounds of each region.
DepthRoundsFourRounds(depth) ==
    IF depth = 1 THEN <<1, 1>>
    ELSE IF depth = 2 THEN <<1, 1>>
    ELSE IF depth = 3 THEN <<2, 2>>
    ELSE IF depth = 4 THEN <<3, 2>>
    ELSE <<4, 4>>

\* A depth table whose row for depth 4 is the row of depth 5.
DepthRoundsFourAsFive(depth) ==
    IF depth = 1 THEN <<1, 1>>
    ELSE IF depth = 2 THEN <<1, 1>>
    ELSE IF depth = 3 THEN <<2, 2>>
    ELSE <<3, 3>>

\* trading_graph.py:63-77  the if/elif chain on depth; the final else takes
\* every other depth
DepthRounds(depth) ==
    IF depth = 1 THEN <<1, 1>>
    ELSE IF depth = 2 THEN <<1, 1>>
    ELSE IF depth = 3 THEN <<2, 2>>
    ELSE IF depth = 4 THEN <<3, 2>>
    ELSE <<3, 3>>

\* A request_config: each of its two keys is absent (None) or present.
Requests ==
    [ analysts : {None} \cup { Some(l) : l \in AnalystLists },
      research_depth : {None} \cup { Some(d) : d \in Depths } ]

\* "if not request_config: return": the empty dict
EmptyRequest(req) == req.analysts = None /\ req.research_depth = None

\* trading_graph.py:47-79  the configuration after update_config(req)
update_config(cfg, req) ==
    LET c1 == IF req.analysts # None
              THEN [cfg EXCEPT !.selected_analysts = req.analysts[1]]
              ELSE cfg
    IN  IF req.research_depth # None
        THEN LET depth == req.research_depth[1]
             IN  [c1 EXCEPT !.research_depth = depth,
                            !.max_debate_rounds = DepthRounds(depth)[1],
                            !.max_risk_rounds = DepthRounds(depth)[2]]
        ELSE c1

\* trading_graph.py:95-99  the graph is reset only when the request has the
\* "analysts" key
ResetsGraph(req) == req.analysts # None

\* trading_graph.py:109-112  ConditionalLogic(max_debate_rounds, max_risk_rounds)
ConditionalLogic(cfg) ==
    [ max_debate_rounds |-> cfg.max_debate_rounds,
      max_risk_rounds   |-> cfg.max_risk_rounds ]

\* trading_graph.py:126-127, 137-169, 224-346  _build_graph().compile(): the
\* analyst chain comes from config["selected_analysts"] as it is when the
\* graph is built, the conditional edges are bound to the ConditionalLogic
\* object that exists then
BuildGraph(cfg, logic) ==
    [ analysts |-> cfg.selected_analysts, logic |-> logic ]

(***************************************************************************)
(* GraphState and the stage nodes (agent_nodes.py)                         *)
(***************************************************************************)
\* trading_graph.py:587-653  _create_initial_state.  Report slots start as
\* None; errors and completed_steps start empty.  The slots the nodes write
\* under other names (bull_opinion, bear_opinion, research_decision,
\* final_decision, neutral_opinion) and the four round fields are not set
\* there: a missing key reads as None, a missing counter as 0.
create_initial_state ==
    [ technical_report     |-> None,
      fundamentals_report  |-> None,
      news_report          |-> None,
      social_report        |-> None,
      bull_analysis        |-> None,
      bear_analysis        |-> None,
      risk_assessment      |-> None,
      final_recommendation |-> None,
      investment_plan      |-> None,
      bull_opinion         |-> None,
      bear_opinion         |-> None,
      research_decision    |-> None,
      final_decision       |-> None,
      neutral_opinion      |-> None,
      errors               |-> <<>>,
      current_step         |-> "start",
      completed_steps      |-> <<>>,
      debate_count         |-> 0,
      debate_latest_speaker |-> None,
      risk_count           |-> 0,
      risk_latest_speaker  |-> None ]

\* main.py:679  a second perform_stock_analysis has been scheduled and has
\* not created its TradingGraph yet
NoPeer ==
    [ pc |-> "idle", node |-> "__end__", state |-> create_initial_state,
      step_count |-> 0, oks |-> <<>>, result |-> <<>> ]

\* What a worker's analyze() returns: an opaque report, told apart by the
\* worker that produced it and the superstep it was produced in.
Report(worker, step) == Some(<<worker, step>>)

\* trading_graph.py:171-181  _test_start_node
test_start_node(st) ==
    [st EXCEPT !.current_step = "test_node_executed",
               !.completed_steps = Append(@, "test_start")]

\* agent_nodes.py:182-206.  ok: the worker call returned; otherwise it raised
\* and the except branch ran.
market_analyst_node(st, ok, step) ==
    IF ok
    THEN [st EXCEPT !.technical_report = Report("market_analyst", step),
                    !.current_step = "market_analysis_complete"]
    ELSE [st EXCEPT !.errors = Append(@, "market_analysis_failed")]

\* agent_nodes.py:208-230
fundamentals_analyst_node(st, ok, step) ==
    IF ok
    THEN [st EXCEPT !.fundamentals_report = Report("fundamentals_analyst", step),
                    !.current_step = "fundamentals_analysis_complete"]
    ELSE [st EXCEPT !.errors = Append(@, "fundamentals_analysis_failed")]

\* agent_nodes.py:232-254
news_analyst_node(st, ok, step) ==
    IF ok
    THEN [st EXCEPT !.news_report = Report("news_analyst", step),
                    !.current_step = "news_analysis_complete"]
    ELSE [st EXCEPT !.errors = Append(@, "news_analysis_failed")]

\* agent_nodes.py:256-278
social_analyst_node(st, ok, step) ==
    IF ok
    THEN [st EXCEPT !.social_report = Report("social_analyst", step),
                    !.current_step = "social_analysis_complete"]
    ELSE [st EXCEPT !.errors = Append(@, "social_analysis_failed")]

\* agent_nodes.py:280-302
bull_researcher_node(st, ok, step) ==
    IF ok
    THEN [st EXCEPT !.bull_opinion = Report("bull_researcher", step),
                    !.current_step = "bull_research_complete"]
    ELSE [st EXCEPT !.errors = Append(@, "bull_research_failed")]

\* agent_nodes.py:304-326
bear_researcher_node(st, ok, step) ==
    IF ok
    THEN [st EXCEPT !.bear_opinion = Report("bear_researcher", step),
                    !.current_step = "bear_research_complete"]
    ELSE [st EXCEPT !.errors = Append(@, "bear_research_failed")]

\* agent_nodes.py:328-350
research_manager_node(st, ok, step) ==
    IF ok
    THEN [st EXCEPT !.research_decision = Report("research_manager", step),
                    !.current_step = "research_decision_complete"]
    ELSE [st EXCEPT !.errors = Append(@, "research_decision_failed")]

\* A trader node whose except branch replaces the error list.
trader_node_forgets_errors(st, ok, step) ==
    IF ok
    THEN [st EXCEPT !.investment_plan = Report("trader", step),
                    !.current_step = "trading_strategy_complete"]
    ELSE [st EXCEPT !.errors = <<"trading_strategy_failed">>]

\* agent_nodes.py:352-374
trader_node(st, ok, step) ==
    IF ok
    THEN [st EXCEPT !.investment_plan = Report("trader", step),
                    !.current_step = "trading_strategy_complete"]
    ELSE [st EXCEPT !.errors = Append(@, "trading_strategy_failed")]

\* agent_nodes.py:376-398: the except branch records the failure and returns
\* the state, as in every other node
risk_manager_node(st, ok, step) ==
    IF ok
    THEN [st EXCEPT !.final_decision = Report("risk_manager", step),
                    !.current_step = "final_decision_complete"]
    ELSE [st EXCEPT !.errors = Append(@, "final_decision_failed")]

\* A risky node whose delegate also counts a debate round.
risky_analyst_node_counts_debate(st, ok, step) ==
    [bear_researcher_node(st, ok, step) EXCEPT !.debate_count = @ + 1]

\* agent_nodes.py:401-404  delegates to bear_researcher_node
risky_analyst_node(st, ok, step) == bear_researcher_node(st, ok, step)

\* agent_nodes.py:406-409  delegates to bull_researcher_node
safe_analyst_node(st, ok, step) == bull_researcher_node(st, ok, step)

\* agent_nodes.py:411-431  no worker is called: a fixed HOLD opinion
neutral_analyst_node(st, ok, step) ==
    [st EXCEPT !.neutral_opinion = Report("NeutralAnalyst", 0),
               !.current_step = "neutral_analysis_complete"]

\* Whether the node calls a worker that can raise.  test_start and
\* neutral_analyst call none.
CallsWorker(n) == n \notin {"test_start", "neutral_analyst"}

\* trading_graph.py:145, 229-251  the function registered under each node name
NodeFunction(n, st, ok, step) ==
    CASE n = "test_start"           -> test_start_node(st)
      [] n = "market_analyst"       -> market_analyst_node(st, ok, step)
      [] n = "fundamentals_analyst" -> fundamentals_analyst_node(st, ok, step)
      [] n = "news_analyst"         -> news_analyst_node(st, ok, step)
      [] n = "social_analyst"       -> social_analyst_node(st, ok, step)
      [] n = "bull_researcher"      -> bull_researcher_node(st, ok, step)
      [] n = "bear_researcher"      -> bear_researcher_node(st, ok, step)
      [] n = "research_manager"     -> research_manager_node(st, ok, step)
      [] n = "trader"               -> trader_node(st, ok, step)
      [] n = "risky_analyst"        -> risky_analyst_node(st, ok, step)
      [] n = "safe_analyst"         -> safe_analyst_node(st, ok, step)
      [] n = "neutral_analyst"      -> neutral_analyst_node(st, ok, step)
      [] n = "risk_manager"         -> risk_manager_node(st, ok, step)

(***************************************************************************)
(* Round bookkeeping and routing.  graph_state.py and conditional_logic.py *)
(* are not among the available sources; these three definitions follow     *)
(* section 4.4 of the specification.                                       *)
(***************************************************************************)
\* "After each execution: debate_count += 1, debate_latest_speaker = {bull|bear}"
\* and "After each execution: risk_count += 1, risk_latest_speaker updated".
StageBookkeeping(n, st) ==
    IF n \in DebateNodes
    THEN [st EXCEPT !.debate_count = @ + 1,
                    !.debate_latest_speaker = Some(n)]
    ELSE IF n \in RiskNodes
    THEN [st EXCEPT !.risk_count = @ + 1,
                    !.risk_latest_speaker = Some(n)]
    ELSE st

\* "if debate_count >= 2 * max_debate_rounds, go to research_manager; else go
\* to the other speaker (alternation, starting with bull)"
should_continue_debate(logic, st) ==
    IF st.debate_count >= 2 * logic.max_debate_rounds
    THEN "research_manager"
    ELSE IF st.debate_latest_speaker = Some("bull_researcher")
    THEN "bear_researcher"
    ELSE "bull_researcher"

\* The fixed order of the risk speakers.
RiskCycle == <<"risky_analyst", "safe_analyst", "neutral_analyst">>

\* "if risk_count >= 3 * max_risk_rounds, go to risk_manager; else go to the
\* next speaker in the fixed 3-cycle (not the caller - the cycle order is
\* fixed, independent of which speaker just ran)": the count picks the speaker
should_continue_risk_analysis(logic, st) ==
    IF st.risk_count >= 3 * logic.max_risk_rounds
    THEN "risk_manager"
    ELSE RiskCycle[(st.risk_count % 3) + 1]

(***************************************************************************)
(* The edges of the compiled graph (trading_graph.py:255-346)              *)
(***************************************************************************)
\* A debate edge map whose "bear_researcher" entry leads back to the bull.
DebateEdgeMapBearToBull(choice) ==
    IF choice = "bear_researcher" THEN "bull_researcher" ELSE choice

\* trading_graph.py:288-292 and 298-302  the mapping of both debate edges
DebateEdgeMap(choice) ==
    CASE choice = "bull_researcher"  -> "bull_researcher"
      [] choice = "bear_researcher"  -> "bear_researcher"
      [] choice = "research_manager" -> "research_manager"

\* A risk edge map whose "safe_analyst" entry skips to the neutral analyst.
RiskEdgeMapSkipsSafe(choice) ==
    IF choice = "safe_analyst" THEN "neutral_analyst" ELSE choice

\* A risk edge map whose "risk_manager" entry leads back into the cycle.
RiskEdgeMapNoExit(choice) ==
    IF choice = "risk_manager" THEN "risky_analyst" ELSE choice

\* trading_graph.py:315-320, 326-331, 337-342  the mapping of the risk edges
RiskEdgeMap(choice) ==
    CASE choice = "risky_analyst"   -> "risky_analyst"
      [] choice = "safe_analyst"    -> "safe_analyst"
      [] choice = "neutral_analyst" -> "neutral_analyst"
      [] choice = "risk_manager"    -> "risk_manager"

\* position of an analyst node in the chain built from the analyst list
AnalystIndex(analysts, n) ==
    CHOOSE i \in 1..Len(analysts) : AnalystNode(analysts[i]) = n

\* An analyst chain in which every analyst is wired to bull_researcher.
AfterAnalystAlwaysBull(analysts, n) == "bull_researcher"

\* trading_graph.py:273-282  analyst i -> analyst i+1, the last -> bull_researcher
AfterAnalyst(analysts, n) ==
    LET i == AnalystIndex(analysts, n)
    IN  IF i < Len(analysts)
        THEN AnalystNode(analysts[i + 1])
        ELSE "bull_researcher"

\* trading_graph.py:262-346  the node that runs after n has returned state st
NextNode(graph, n, st) ==
    CASE n = "test_start"       -> AnalystNode(graph.analysts[1])
      [] n \in AnalystNodes     -> AfterAnalyst(graph.analysts, n)
      [] n \in DebateNodes      ->
            DebateEdgeMap(should_continue_debate(graph.logic, st))
      [] n = "research_manager" -> "trader"
      [] n = "trader"           -> "risky_analyst"
      [] n \in RiskNodes        ->
            RiskEdgeMap(should_continue_risk_analysis(graph.logic, st))
      [] n = "risk_manager"     -> END

\* trading_graph.py:655-683  _process_final_state: the fields the result is
\* read from
process_final_state(final_state) ==
    [ final_recommendation |-> final_state.final_recommendation,
      investment_plan      |-> final_state.investment_plan,
      risk_assessment      |-> final_state.risk_assessment,
      bull_analysis        |-> final_state.bull_analysis,
      bear_analysis        |-> final_state.bear_analysis,
      completed_steps      |-> final_state.completed_steps ]

(***************************************************************************)
(* The agent service (agent_manager.py).  base_agent.py and the agent      *)
(* classes are not among the available sources: an agent object is known   *)
(* by its id, its type, its status and what it can handle.                 *)
(***************************************************************************)
\* agent_manager.py:50-63  the keys of agent_classes
AgentTypes ==
    { "fundamentals_analyst", "market_analyst", "news_analyst",
      "social_media_analyst", "bull_researcher", "bear_researcher",
      "research_manager", "risk_manager", "trader", "risky_debator",
      "safe_debator", "neutral_debator" }

\* The agent objects callers hold: three market analysts and one trader.
AgentIds == {"a1", "a2", "a3", "a4"}

\* agent_manager.py:50-63  agent_classes in the order of its keys, which is
\* the order _create_default_agents walks through
ClassOrder ==
    << "fundamentals_analyst", "market_analyst", "news_analyst",
       "social_media_analyst", "bull_researcher", "bear_researcher",
       "research_manager", "risk_manager", "trader", "risky_debator",
       "safe_debator", "neutral_debator" >>

\* agent_manager.py:93  agent_class(agent_type=agent_type): the default agent
\* of a type; its generated id is written as the name of its type
DefaultAgent(agent_type) == agent_type

\* every agent object: the four of the callers and the twelve defaults
AllAgents == AgentIds \cup { DefaultAgent(t) : t \in AgentTypes }

\* agent.agent_type
AgentTypeOf(a) ==
    IF a \in AgentTypes THEN a
    ELSE IF a = "a4" THEN "trader" ELSE "market_analyst"

\* AgentStatus
AgentStatuses == {"IDLE", "BUSY", "ERROR", "OFFLINE"}

\* no health_check call is under way
NoHealthCheck ==
    [ pc |-> "idle", order |-> <<>>, position |-> 0, healthy_count |-> 0,
      raised_by |-> None, ret |-> None ]

\* agent_manager.py:35-72  AgentManager.__init__ and LoadBalancer.__init__
\* (400-402): empty index, empty type lists, counters at 0; Redis and the
\* database hold nothing of this manager; every agent object is IDLE.
NoManager ==
    /\ agents = {}
    /\ agent_types = [ t \in AgentTypes |-> <<>> ]
    /\ directory = {}
    /\ durable = [ a \in AgentIds |-> 0 ]
    /\ status = [ a \in AgentIds |-> "IDLE" ]
    /\ strategy = "round_robin"
    /\ round_robin_counters = [ t \in AgentTypes |-> 0 ]
    /\ success_rate = [ a \in AgentIds |-> 0 ]
    /\ inflight = {}
    /\ registering = None
    /\ peer = NoPeer
    /\ mcall = None
    /\ calls = 0
    /\ candidates = <<>>
    /\ picks = <<>>
    /\ health = NoHealthCheck
    /\ loop = "none"

(***************************************************************************)
(* Progress reporting (main.py)                                            *)
(***************************************************************************)
Min(a, b) == IF a <= b THEN a ELSE b

\* main.py:546-554  the progress_callback perform_stock_analysis passes to
\* analyze_stock stores min(60 + progress // 3, 85)
progress_callback(percent) == Min(60 + (percent \div 3), 85)

\* `if progress_callback: await progress_callback(...)` for each percent in
\* turn: what the request has stored afterwards.  Without a request the
\* callback only records the percents (variable progress).
StoredAfter(percents) ==
    IF rpc = "none" THEN stored
    ELSE stored \o [ i \in 1..Len(percents) |-> progress_callback(percents[i]) ]

\* main.py:408-442  update_analysis_progress: setex replaces the record
\* analysis_progress:{analysis_id}, whatever it held
update_analysis_progress(an, st) == [an EXCEPT !.status = st]

\* main.py:445-461  save_analysis_result: setex of
\* analysis_result:{analysis_id}
save_analysis_result(an) == [an EXCEPT !.result = TRUE]

\* main.py:545-557  progress_callback calls update_analysis_progress with
\* AnalysisStatus.RUNNING; without a request there is no record
AnalysisAfterCallback ==
    IF rpc = "none" THEN analysis
    ELSE update_analysis_progress(analysis, "RUNNING")

\* nothing is stored for the analysis_id
NoAnalysis == [ status |-> "none", result |-> FALSE, cancelled |-> FALSE ]

\* no request of main.py is in progress
NoRequest ==
    /\ rpc = "none"
    /\ stored = <<>>
    /\ monitor = 0
    /\ analysis = NoAnalysis

(***************************************************************************)
(* The state machine                                                       *)
(***************************************************************************)
NoLast == [ node |-> "none", ok |-> TRUE, before |-> create_initial_state ]

NothingExecuted == [ n \in Nodes |-> 0 ]

\* trading_graph.py:24-45  TradingGraph.__init__
Init ==
    /\ config = DefaultConfig
    /\ conditional_logic = None
    /\ compiled_graph = None
    /\ pc = "idle"
    /\ node = END
    /\ state = create_initial_state
    /\ step_count = 0
    /\ executed = NothingExecuted
    /\ streamed = NothingExecuted
    /\ last = NoLast
    /\ progress = <<>>
    /\ result = None
    /\ updates = 0
    /\ call = None
    /\ NoRequest
    /\ NoManager

\* The caller is outside analyze_stock.  The instance is configured and
\* initialized before its first analysis (pc = "idle"); analyze_stock changes
\* none of config, conditional_logic and compiled_graph, so configuring
\* between two analyses adds no behaviour.
Quiescent == pc \in {"idle", "returned", "raised"}

\* trading_graph.py:47-99  update_config(request_config)
UpdateConfigWith(req) ==
    /\ pc = "idle"
    /\ updates < MaxUpdates
    /\ config' = IF EmptyRequest(req) THEN config
                 ELSE update_config(config, req)
    /\ compiled_graph' = IF ResetsGraph(req) THEN None
                         ELSE compiled_graph
    /\ updates' = updates + 1
    /\ UNCHANGED <<conditional_logic, pc, node, state, step_count, executed,
                   streamed, last, progress, result, requestVars,
                   registryVars, peer>>

UpdateConfig ==
    \E req \in Requests : UpdateConfigWith(req) /\ UNCHANGED call

\* trading_graph.py:101-133  initialize().  built: agent_nodes.initialize()
\* returned and the graph was built and compiled; otherwise it raised after
\* the new ConditionalLogic was stored (line 109) and the exception is
\* re-raised with the graph fields untouched.
InitializeWith(built) ==
    /\ pc = "idle"
    /\ conditional_logic' = Some(ConditionalLogic(config))
    /\ compiled_graph' =
          IF built
          THEN Some(BuildGraph(config, ConditionalLogic(config)))
          ELSE compiled_graph
    /\ UNCHANGED <<config, pc, node, state, step_count, executed, streamed,
                   last, progress, result, updates, call, stored, monitor,
                   analysis, registryVars, peer>>

Initialize ==
    \E built \in BOOLEAN : InitializeWith(built) /\ UNCHANGED rpc

\* trading_graph.py:348-402  analyze_stock up to the start of the traversal:
\* RuntimeError without a compiled graph, else the callbacks 5, 10, 15 and
\* the initial state.  The locals of an earlier call are dead.
AnalyzeStockStart ==
    /\ Quiescent
    /\ pc' = IF compiled_graph = None THEN "raised" ELSE "astream"
    /\ progress' = IF compiled_graph = None THEN <<>> ELSE <<5, 10, 15>>
    /\ node' = IF compiled_graph = None THEN END ELSE "test_start"
    /\ state' = create_initial_state
    /\ step_count' = 0
    /\ executed' = NothingExecuted
    /\ streamed' = NothingExecuted
    /\ last' = NoLast
    /\ result' = None
    /\ stored' = IF compiled_graph = None THEN stored
                 ELSE StoredAfter(<<5, 10, 15>>)
    /\ analysis' = IF compiled_graph = None THEN analysis
                   ELSE AnalysisAfterCallback
    /\ monitor' = 0
    /\ UNCHANGED <<config, conditional_logic, compiled_graph, updates, call,
                   rpc, registryVars, peer>>

\* A ceiling that lets one superstep too many through.
OutOfStepsOffByOne(steps) == steps > RecursionLimit

\* trading_graph.py:392, 414, 428  config = {"recursion_limit": 100} is passed
\* to astream and to ainvoke: when that many supersteps have run and the
\* graph has not reached END, the traversal raises GraphRecursionError
OutOfSteps(steps) == steps >= RecursionLimit

\* One superstep of compiled_graph.astream / ainvoke (trading_graph.py:414,
\* 428): the node function runs, the round fields are kept, the outgoing
\* edge is taken.  Past the recursion limit the traversal raises instead;
\* analyze_stock reports the failure (line 482) and re-raises.
GraphStepWith(max_errors) ==
    /\ pc \in {"astream", "ainvoke"}
    /\ node # END
    /\ IF OutOfSteps(step_count)
       THEN /\ pc' = "raised"
            /\ progress' = Append(progress, 0)
            /\ stored' = StoredAfter(<<0>>)
            /\ analysis' = AnalysisAfterCallback
            /\ UNCHANGED <<node, state, step_count, executed, last>>
       ELSE /\ \E ok \in BOOLEAN :
                  /\ ok \/ (CallsWorker(node) /\ Len(state.errors) < max_errors)
                  /\ state' = StageBookkeeping(node,
                                 NodeFunction(node, state, ok, step_count + 1))
                  /\ last' = [ node |-> node, ok |-> ok, before |-> state ]
            /\ node' = NextNode(compiled_graph[1], node, state')
            /\ step_count' = step_count + 1
            /\ executed' = [executed EXCEPT ![node] = @ + 1]
            /\ UNCHANGED <<pc, progress, stored, analysis>>
    /\ UNCHANGED <<config, conditional_logic, compiled_graph, streamed, result,
                   updates, call, rpc, monitor, registryVars, peer>>

GraphStep == GraphStepWith(MaxErrors)

\* trading_graph.py:425-428  the streamed traversal is over; ainvoke starts
\* a second traversal from the same initial state
StartAinvoke ==
    /\ pc = "astream"
    /\ node = END
    /\ pc' = "ainvoke"
    /\ node' = "test_start"
    /\ state' = create_initial_state
    /\ step_count' = 0
    /\ streamed' = executed
    /\ executed' = NothingExecuted
    /\ last' = NoLast
    /\ UNCHANGED <<config, conditional_logic, compiled_graph, progress, result,
                   updates, call, requestVars, registryVars, peer>>

\* trading_graph.py:449-468  the callbacks 90 and 100 around
\* _process_final_state, then the result is returned
AnalyzeStockReturn ==
    /\ pc = "ainvoke"
    /\ node = END
    /\ pc' = "returned"
    /\ progress' = progress \o <<90, 100>>
    /\ result' = Some(process_final_state(state))
    /\ stored' = StoredAfter(<<90, 100>>)
    /\ analysis' = AnalysisAfterCallback
    /\ UNCHANGED <<config, conditional_logic, compiled_graph, node, state,
                   step_count, executed, streamed, last, updates, call, rpc,
                   monitor, registryVars, peer>>

Next ==
    \/ UpdateConfig
    \/ Initialize
    \/ AnalyzeStockStart
    \/ GraphStep
    \/ StartAinvoke
    \/ AnalyzeStockReturn

Spec == Init /\ [][Next]_vars

(***************************************************************************)
(* update_config on its own: every configuration one update_config call    *)
(* can leave behind is taken as the configuration the next call finds, and  *)
(* the call is recorded.                                                    *)
(***************************************************************************)
Configs ==
    {DefaultConfig} \cup { update_config(DefaultConfig, r) : r \in Requests }

InitConfig ==
    /\ config \in Configs
    /\ conditional_logic = None
    /\ compiled_graph = None
    /\ pc = "idle"
    /\ node = END
    /\ state = create_initial_state
    /\ step_count = 0
    /\ executed = NothingExecuted
    /\ streamed = NothingExecuted
    /\ last = NoLast
    /\ progress = <<>>
    /\ result = None
    /\ updates = 0
    /\ call = None
    /\ NoRequest
    /\ NoManager

UpdateConfigRecorded ==
    \E req \in Requests :
        /\ UpdateConfigWith(req)
        /\ call' = Some([ req |-> req, before |-> config ])

NextConfig == UpdateConfigRecorded

SpecConfig == InitConfig /\ [][NextConfig]_vars

(***************************************************************************)
(* One initialized instance whose workers may fail repeatedly.             *)
(***************************************************************************)
InitErrors ==
    /\ \E d \in {1, 3} :
          config = update_config(DefaultConfig,
                      [ analysts |-> Some(<<"market", "fundamentals">>),
                        research_depth |-> Some(d) ])
    /\ conditional_logic = Some(ConditionalLogic(config))
    /\ compiled_graph = Some(BuildGraph(config, ConditionalLogic(config)))
    /\ pc = "idle"
    /\ node = END
    /\ state = create_initial_state
    /\ step_count = 0
    /\ executed = NothingExecuted
    /\ streamed = NothingExecuted
    /\ last = NoLast
    /\ progress = <<>>
    /\ result = None
    /\ updates = 1
    /\ call = None
    /\ NoRequest
    /\ NoManager

GraphStepErrors == GraphStepWith(MaxStageErrors)

NextErrors ==
    \/ AnalyzeStockStart
    \/ GraphStepErrors
    \/ StartAinvoke
    \/ AnalyzeStockReturn

SpecErrors == InitErrors /\ [][NextErrors]_vars

(***************************************************************************)
(* Routing that does not leave a cyclic region.  conditional_logic.py is   *)
(* not among the available sources; a ConditionalLogic whose budget lies   *)
(* beyond the recursion limit stands for any routing that keeps choosing   *)
(* a speaker of the region for as long as the traversal lasts.             *)
(***************************************************************************)
LoopLogics(cfg) ==
    { ConditionalLogic(cfg),
      [ ConditionalLogic(cfg) EXCEPT !.max_debate_rounds = RecursionLimit ],
      [ ConditionalLogic(cfg) EXCEPT !.max_risk_rounds = RecursionLimit ] }

InitLoop ==
    /\ \E l \in {<<"market">>, DefaultAnalysts} :
          config = update_config(DefaultConfig,
                      [ analysts |-> Some(l), research_depth |-> Some(1) ])
    /\ \E logic \in LoopLogics(config) :
          /\ conditional_logic = Some(logic)
          /\ compiled_graph = Some(BuildGraph(config, logic))
    /\ pc = "idle"
    /\ node = END
    /\ state = create_initial_state
    /\ step_count = 0
    /\ executed = NothingExecuted
    /\ streamed = NothingExecuted
    /\ last = NoLast
    /\ progress = <<>>
    /\ result = None
    /\ updates = 1
    /\ call = None
    /\ NoRequest
    /\ NoManager

\* every worker call returns
GraphStepLoop == GraphStepWith(0)

NextLoop ==
    \/ AnalyzeStockStart
    \/ GraphStepLoop
    \/ StartAinvoke
    \/ AnalyzeStockReturn

SpecLoop == InitLoop /\ [][NextLoop]_vars

(***************************************************************************)
(* One analysis request (main.py): start_analysis stores the PENDING       *)
(* record and schedules perform_stock_analysis, which creates its own      *)
(* TradingGraph, initializes it and calls analyze_stock with its           *)
(* progress_callback.                                                      *)
(***************************************************************************)
\* trading_graph.py:489-500  the percents of _background_progress_monitor
MonitorSteps == <<25, 35, 45, 55, 65, 70, 75, 80, 85, 90>>

\* trading_graph.py:489-500  the agent each step of the monitor names, as
\* the graph nodes of that agent (the risk analyst step names the three
\* risk nodes of _add_risk_nodes)
MonitorStages ==
    << {"market_analyst"}, {"fundamentals_analyst"}, {"news_analyst"},
       {"social_analyst"}, {"bull_researcher"}, {"bear_researcher"},
       {"research_manager"}, {"trader"}, RiskNodes, {"risk_manager"} >>

\* main.py:668-676  start_analysis: update_analysis_progress(PENDING, 0)
StartAnalysis ==
    /\ rpc = "none"
    /\ rpc' = "pending"
    /\ stored' = Append(stored, 0)
    /\ analysis' = update_analysis_progress(analysis, "PENDING")
    /\ UNCHANGED <<engineVars, monitor, registryVars, peer>>

\* main.py:464-530  perform_stock_analysis: RUNNING at 10, 30 and 60, then
\* analyzer = TradingGraph()
PerformStart ==
    /\ rpc = "pending"
    /\ rpc' = "created"
    /\ stored' = stored \o <<10, 30, 60>>
    /\ analysis' = update_analysis_progress(analysis, "RUNNING")
    /\ UNCHANGED <<engineVars, monitor, registryVars, peer>>

\* main.py:532  await analyzer.initialize(); an exception leaves the try block
RequestInitialize ==
    /\ rpc = "created"
    /\ \E built \in BOOLEAN :
          /\ InitializeWith(built)
          /\ rpc' = IF built THEN "initialized" ELSE "raising"

\* main.py:545-564  analysis_result_raw = await analyzer.analyze_stock(...,
\* progress_callback=progress_callback)
RequestAnalyze ==
    /\ rpc = "initialized"
    /\ pc = "idle"
    /\ AnalyzeStockStart

\* a monitor task on which cancel() has no effect
MonitorAliveAfterCancel ==
    /\ rpc \in {"initialized", "completed", "failed"}
    /\ pc \in {"astream", "ainvoke", "returned", "raised"}

\* trading_graph.py:397-447  the monitor task runs from create_task (400)
\* until monitor_task.cancel() (435 after the traversals, 445 when one
\* raised).  cancel() is not awaited; the CancelledError is delivered at the
\* await the task is suspended in, and `except asyncio.CancelledError`
\* (519) ends it, so no statement of its loop runs after the cancel.
MonitorAlive ==
    /\ rpc = "initialized"
    /\ pc \in {"astream", "ainvoke"}

\* trading_graph.py:485-522  one round of _background_progress_monitor: after
\* its sleep it reports the next percent.  The task exists from line 398
\* until it is cancelled when the traversals are over (435, 445).
MonitorTick ==
    /\ MonitorAlive
    /\ monitor < Len(MonitorSteps)
    /\ monitor' = monitor + 1
    /\ progress' = Append(progress, MonitorSteps[monitor + 1])
    /\ stored' = StoredAfter(<<MonitorSteps[monitor + 1]>>)
    /\ analysis' = AnalysisAfterCallback
    /\ UNCHANGED <<config, conditional_logic, compiled_graph, pc, node, state,
                   step_count, executed, streamed, last, result, updates,
                   call, rpc, registryVars, peer>>

\* main.py:573-637  after analyze_stock returned: RUNNING at 90, the result
\* is saved, COMPLETED at 100
RequestFinish ==
    /\ rpc = "initialized"
    /\ pc = "returned"
    /\ rpc' = "completed"
    /\ stored' = stored \o <<90, 100>>
    /\ analysis' = update_analysis_progress(
                       save_analysis_result(
                           update_analysis_progress(analysis, "RUNNING")),
                       "COMPLETED")
    /\ UNCHANGED <<engineVars, monitor, registryVars, peer>>

\* main.py:639-650  except Exception: update_analysis_progress(FAILED, 0)
RequestFail ==
    /\ \/ rpc = "raising"
       \/ rpc = "initialized" /\ pc = "raised"
    /\ rpc' = "failed"
    /\ stored' = Append(stored, 0)
    /\ analysis' = update_analysis_progress(analysis, "FAILED")
    /\ UNCHANGED <<engineVars, monitor, registryVars, peer>>

NextRequest ==
    \/ StartAnalysis
    \/ PerformStart
    \/ RequestInitialize
    \/ RequestAnalyze
    \/ MonitorTick
    \/ GraphStep
    \/ StartAinvoke
    \/ AnalyzeStockReturn
    \/ RequestFinish
    \/ RequestFail

SpecRequest == Init /\ [][NextRequest]_vars

\* perform_stock_analysis has been scheduled and has not returned
InFlight == rpc \in {"pending", "created", "initialized", "raising"}

\* main.py:748-772  cancel_analysis while the background task is in flight:
\* update_analysis_progress(CANCELLED, 0); the task is not told
CancelAnalysis ==
    /\ InFlight
    /\ ~analysis.cancelled
    /\ stored' = Append(stored, 0)
    /\ analysis' = [update_analysis_progress(analysis, "CANCELLED")
                       EXCEPT !.cancelled = TRUE]
    /\ UNCHANGED <<engineVars, rpc, monitor, registryVars, peer>>

NextCancel ==
    \/ StartAnalysis
    \/ PerformStart
    \/ RequestInitialize
    \/ RequestAnalyze
    \/ MonitorTick
    \/ GraphStep
    \/ StartAinvoke
    \/ AnalyzeStockReturn
    \/ RequestFinish
    \/ RequestFail
    \/ CancelAnalysis

SpecCancel == Init /\ [][NextCancel]_vars

(***************************************************************************)
(* Two analysis requests at the same time.  background_tasks.add_task      *)
(* (main.py:679) runs each perform_stock_analysis as its own coroutine;    *)
(* each creates its own TradingGraph() with the default configuration and  *)
(* initializes it (530-532), and each analyze_stock builds its GraphState  *)
(* with _create_initial_state (trading_graph.py:587-653).  The first       *)
(* request is the engine above; the second is the record peer, stepped by  *)
(* the same node functions, bookkeeping and edges.                         *)
(***************************************************************************)
MaxPeerErrors == 1

\* a GraphState kept in one place and used by every request
WorkflowStateOfFirst(request) == "first"

\* trading_graph.py:587-653, 414, 428  the GraphState a request's traversal
\* threads through its nodes is the dict its own analyze_stock built; the
\* node functions of agent_nodes.py read and write that parameter only
WorkflowStateOf(request) == request

\* the GraphState the second request's stages operate on
PeerState ==
    IF WorkflowStateOf("second") = "second" THEN peer.state ELSE state

\* the second request stores a GraphState and moves on to position p
PeerWrites(new, p) ==
    /\ peer' = IF WorkflowStateOf("second") = "second"
               THEN [p EXCEPT !.state = new]
               ELSE p
    /\ state' = IF WorkflowStateOf("second") = "second" THEN state ELSE new
    /\ UNCHANGED <<config, conditional_logic, compiled_graph, pc, node,
                   step_count, executed, streamed, last, progress, result,
                   updates, call, requestVars, registryVars>>

\* main.py:530-532  analyzer = TradingGraph(); await analyzer.initialize():
\* the graph of the default configuration
PeerGraph == BuildGraph(DefaultConfig, ConditionalLogic(DefaultConfig))

\* main.py:560-564, trading_graph.py:371-414  the second request's
\* analyze_stock creates its initial state and starts the astream traversal
PeerStart ==
    /\ peer.pc = "idle"
    /\ PeerWrites(create_initial_state,
                  [peer EXCEPT !.pc = "astream", !.node = "test_start",
                               !.step_count = 0, !.oks = <<>>])

\* trading_graph.py:414, 428  one superstep of the second request's
\* traversal
PeerStep ==
    /\ peer.pc \in {"astream", "ainvoke"}
    /\ peer.node # END
    /\ ~OutOfSteps(peer.step_count)
    /\ \E ok \in BOOLEAN :
          /\ ok \/ (/\ CallsWorker(peer.node)
                    /\ Len(PeerState.errors) < MaxPeerErrors)
          /\ LET new == StageBookkeeping(peer.node,
                            NodeFunction(peer.node, PeerState, ok,
                                         peer.step_count + 1))
             IN  PeerWrites(new,
                     [peer EXCEPT !.node = NextNode(PeerGraph, peer.node, new),
                                  !.step_count = @ + 1,
                                  !.oks = Append(@, ok)])

\* trading_graph.py:425-428  the second request's ainvoke traversal starts
\* from its initial state
PeerStartAinvoke ==
    /\ peer.pc = "astream"
    /\ peer.node = END
    /\ PeerWrites(create_initial_state,
                  [peer EXCEPT !.pc = "ainvoke", !.node = "test_start",
                               !.step_count = 0, !.oks = <<>>])

\* trading_graph.py:449-468  the second request's analyze_stock returns the
\* processed final state
PeerReturn ==
    /\ peer.pc = "ainvoke"
    /\ peer.node = END
    /\ peer' = [peer EXCEPT !.pc = "returned",
                            !.result = Some(process_final_state(PeerState))]
    /\ UNCHANGED <<engineVars, requestVars, registryVars>>

NextTwoRequests ==
    \/ Initialize
    \/ AnalyzeStockStart
    \/ GraphStepLoop
    \/ StartAinvoke
    \/ AnalyzeStockReturn
    \/ PeerStart
    \/ PeerStep
    \/ PeerStartAinvoke
    \/ PeerReturn

SpecTwoRequests == Init /\ [][NextTwoRequests]_vars

(***************************************************************************)
(* The registry operations of AgentManager (agent_manager.py:100-161,      *)
(* 326-365).  The manager's registry is the record                         *)
(* [agents, agent_types, directory, durable]: the local index, the         *)
(* per-type lists, the keys agent:<id> in Redis and the number of          *)
(* documents per agent_id in the "agents" collection.  What Redis and the  *)
(* database do in one call is an input of the call.                        *)
(***************************************************************************)
Registry ==
    [ agents |-> agents, agent_types |-> agent_types,
      directory |-> directory, durable |-> durable ]

\* hset raises / hset succeeds and expire raises / both succeed
RegisterRedisOutcomes == {"ok", "hset_failed", "expire_failed"}
\* delete succeeds / raises
UnregisterRedisOutcomes == {"ok", "delete_failed"}
\* is_connected() is false / the collection call raises / it succeeds
DbOutcomes == {"ok", "disconnected", "failed"}

\* list.remove(x): drops the first occurrence
RECURSIVE Remove(_, _)
Remove(seq, x) ==
    IF seq = <<>> THEN <<>>
    ELSE IF Head(seq) = x THEN Tail(seq)
    ELSE <<Head(seq)>> \o Remove(Tail(seq), x)

\* agent_manager.py:326-339  _register_to_redis; the exception is logged
register_to_redis_nowhere(dir, a, redis) == dir

register_to_redis(dir, a, redis) ==
    IF redis = "hset_failed" THEN dir ELSE dir \cup {a}

\* agent_manager.py:341-347  _unregister_from_redis
unregister_from_redis(dir, a, redis) ==
    IF redis = "ok" THEN dir \ {a} ELSE dir

\* agent_manager.py:349-356  _save_agent_to_db: insert_one when connected
save_agent_to_db(dur, a, db) ==
    IF db = "ok" THEN [dur EXCEPT ![a] = @ + 1] ELSE dur

\* agent_manager.py:358-365  _remove_agent_from_db: delete_one when connected
remove_agent_from_db(dur, a, db) ==
    IF db = "ok" /\ dur[a] > 0 THEN [dur EXCEPT ![a] = @ - 1] ELSE dur

register_agent_overwrites(reg, a, redis, db) ==
    [ reg |-> [ agents |-> reg.agents \cup {a},
                agent_types |->
                    [reg.agent_types EXCEPT ![AgentTypeOf(a)] = Append(@, a)],
                directory |-> register_to_redis(reg.directory, a, redis),
                durable |-> save_agent_to_db(reg.durable, a, db) ],
      ret |-> TRUE ]

register_agent_transactional(reg, a, redis, db) ==
    IF a \in reg.agents \/ redis # "ok" \/ db # "ok"
    THEN [ reg |-> reg, ret |-> FALSE ]
    ELSE register_agent_overwrites(reg, a, redis, db)

\* A registration that leaves the agent out of the list of its type.
register_agent_index_only(reg, a, redis, db) ==
    IF a \in reg.agents
    THEN [ reg |-> reg, ret |-> FALSE ]
    ELSE [ reg |-> [ agents |-> reg.agents \cup {a},
                     agent_types |-> reg.agent_types,
                     directory |-> register_to_redis(reg.directory, a, redis),
                     durable |-> save_agent_to_db(reg.durable, a, db) ],
           ret |-> TRUE ]

\* agent_manager.py:100-135  register_agent: the registry after the call and
\* the value returned
register_agent(reg, a, redis, db) ==
    IF a \in reg.agents
    THEN [ reg |-> reg, ret |-> FALSE ]
    ELSE [ reg |-> [ agents |-> reg.agents \cup {a},
                     agent_types |->
                         [reg.agent_types EXCEPT
                             ![AgentTypeOf(a)] = Append(@, a)],
                     directory |-> register_to_redis(reg.directory, a, redis),
                     durable |-> save_agent_to_db(reg.durable, a, db) ],
           ret |-> TRUE ]

unregister_agent_keeps_type_list(reg, a, redis, db) ==
    IF a \notin reg.agents
    THEN [ reg |-> reg, ret |-> FALSE ]
    ELSE [ reg |-> [ agents |-> reg.agents \ {a},
                     agent_types |-> reg.agent_types,
                     directory |->
                         unregister_from_redis(reg.directory, a, redis),
                     durable |-> remove_agent_from_db(reg.durable, a, db) ],
           ret |-> TRUE ]

\* agent_manager.py:137-161  unregister_agent
unregister_agent(reg, a, redis, db) ==
    IF a \notin reg.agents
    THEN [ reg |-> reg, ret |-> FALSE ]
    ELSE [ reg |-> [ agents |-> reg.agents \ {a},
                     agent_types |->
                         [reg.agent_types EXCEPT
                             ![AgentTypeOf(a)] = Remove(@, a)],
                     directory |->
                         unregister_from_redis(reg.directory, a, redis),
                     durable |-> remove_agent_from_db(reg.durable, a, db) ],
           ret |-> TRUE ]

\* agent_manager.py:163-165  get_agent
get_agent(a) == IF a \in agents THEN Some(a) ELSE None

\* One completed call: the registry becomes out.reg; mcall keeps what was
\* called, with which outcomes of Redis and the database, what it returned
\* and the registry it started from.
ManagerCall(op, a, redis, db, out) ==
    /\ calls < MaxCalls
    /\ calls' = calls + 1
    /\ agents' = out.reg.agents
    /\ agent_types' = out.reg.agent_types
    /\ directory' = out.reg.directory
    /\ durable' = out.reg.durable
    /\ mcall' = Some([ op |-> op, agent_id |-> a, redis |-> redis, db |-> db,
                       ret |-> out.ret, before |-> Registry ])
    /\ UNCHANGED <<status, strategy, round_robin_counters, success_rate,
                   inflight, registering, peer, candidates, picks,
                   engineVars, requestVars,
                   health, loop>>

RegisterAgent ==
    \E a \in AgentIds, redis \in RegisterRedisOutcomes, db \in DbOutcomes :
        ManagerCall("register_agent", a, redis, db,
                    register_agent(Registry, a, redis, db))

UnregisterAgent ==
    \E a \in AgentIds, redis \in UnregisterRedisOutcomes, db \in DbOutcomes :
        ManagerCall("unregister_agent", a, redis, db,
                    unregister_agent(Registry, a, redis, db))

NextRegistry ==
    \/ RegisterAgent
    \/ UnregisterAgent

SpecRegistry == Init /\ [][NextRegistry]_vars

(***************************************************************************)
(* LoadBalancer (agent_manager.py:397-434)                                 *)
(***************************************************************************)
\* trading_graph.py:24-45  a TradingGraph that is not used
FreshEngine ==
    /\ config = DefaultConfig
    /\ conditional_logic = None
    /\ compiled_graph = None
    /\ pc = "idle"
    /\ node = END
    /\ state = create_initial_state
    /\ step_count = 0
    /\ executed = NothingExecuted
    /\ streamed = NothingExecuted
    /\ last = NoLast
    /\ progress = <<>>
    /\ result = None
    /\ updates = 0
    /\ call = None

\* len(agent.current_tasks)
CurrentTasks(a) == Cardinality({ t \in inflight : t.agent = a })

round_robin_select_twice(list, counters) ==
    [ agent |-> Some(list[(counters[AgentTypeOf(list[1])] % Len(list)) + 1]),
      counters |-> [counters EXCEPT ![AgentTypeOf(list[1])] = @ + 2],
      raised |-> FALSE ]

round_robin_select_stays(list, counters) ==
    [ agent |-> Some(list[(counters[AgentTypeOf(list[1])] % Len(list)) + 1]),
      counters |-> counters, raised |-> FALSE ]

\* agent_manager.py:421-426  _round_robin_select (Python indexes from 0)
round_robin_select(list, counters) ==
    [ agent |-> Some(list[(counters[AgentTypeOf(list[1])] % Len(list)) + 1]),
      counters |-> [counters EXCEPT ![AgentTypeOf(list[1])] = @ + 1],
      raised |-> FALSE ]

least_busy_select_last(list) ==
    list[CHOOSE i \in 1..Len(list) :
            /\ \A j \in 1..Len(list) :
                  CurrentTasks(list[i]) <= CurrentTasks(list[j])
            /\ \A j \in (i + 1)..Len(list) :
                  CurrentTasks(list[j]) > CurrentTasks(list[i])]

\* agent_manager.py:428-430  _least_busy_select: min() keeps the first minimum
least_busy_select(list) ==
    list[CHOOSE i \in 1..Len(list) :
            /\ \A j \in 1..Len(list) :
                  CurrentTasks(list[i]) <= CurrentTasks(list[j])
            /\ \A j \in 1..(i - 1) :
                  CurrentTasks(list[j]) > CurrentTasks(list[i])]

best_performance_select_last(list) ==
    list[CHOOSE i \in 1..Len(list) :
            /\ \A j \in 1..Len(list) :
                  success_rate[list[i]] >= success_rate[list[j]]
            /\ \A j \in (i + 1)..Len(list) :
                  success_rate[list[j]] < success_rate[list[i]]]

\* agent_manager.py:432-434  _best_performance_select: max() keeps the first
\* maximum
best_performance_select(list) ==
    list[CHOOSE i \in 1..Len(list) :
            /\ \A j \in 1..Len(list) :
                  success_rate[list[i]] >= success_rate[list[j]]
            /\ \A j \in 1..(i - 1) :
                  success_rate[list[j]] < success_rate[list[i]]]

select_agent_always_strategy(strat, list, counters) ==
    IF list = <<>>
    THEN [ agent |-> None, counters |-> counters, raised |-> TRUE ]
    ELSE IF strat = "round_robin"
    THEN round_robin_select(list, counters)
    ELSE [ agent |-> Some(list[Len(list)]), counters |-> counters,
           raised |-> FALSE ]

\* agent_manager.py:404-419  select_agent: the agent returned and the
\* counters afterwards; raised when the list is empty
select_agent(strat, list, counters) ==
    IF list = <<>>
    THEN [ agent |-> None, counters |-> counters, raised |-> TRUE ]
    ELSE IF Len(list) = 1
    THEN [ agent |-> Some(list[1]), counters |-> counters, raised |-> FALSE ]
    ELSE IF strat = "round_robin"
    THEN round_robin_select(list, counters)
    ELSE IF strat = "least_busy"
    THEN [ agent |-> Some(least_busy_select(list)), counters |-> counters,
           raised |-> FALSE ]
    ELSE IF strat = "best_performance"
    THEN [ agent |-> Some(best_performance_select(list)),
           counters |-> counters, raised |-> FALSE ]
    ELSE [ agent |-> Some(list[1]), counters |-> counters, raised |-> FALSE ]

\* agent_manager.py:400, 412-419  the three strategies select_agent knows
\* and one it does not
Strategies == {"round_robin", "least_busy", "best_performance", "random"}

\* the lists of one to three distinct agents of one type
CandidateLists ==
    { l \in UNION { [1..n -> AgentIds] : n \in 1..3 } :
        /\ \A i, j \in 1..Len(l) : (i # j) => (l[i] # l[j])
        /\ \A i \in 1..Len(l) : AgentTypeOf(l[i]) = AgentTypeOf(l[1]) }

\* A new LoadBalancer(strategy) (agent_manager.py:400-402) and the list its
\* caller keeps handing to select_agent.
InitBalancer ==
    /\ FreshEngine
    /\ NoRequest
    /\ agents = {}
    /\ agent_types = [ t \in AgentTypes |-> <<>> ]
    /\ directory = {}
    /\ durable = [ a \in AgentIds |-> 0 ]
    /\ status = [ a \in AgentIds |-> "IDLE" ]
    /\ strategy \in Strategies
    /\ round_robin_counters = [ t \in AgentTypes |-> 0 ]
    /\ success_rate = [ a \in AgentIds |-> 0 ]
    /\ inflight = {}
    /\ registering = None
    /\ peer = NoPeer
    /\ mcall = None
    /\ calls = 0
    /\ candidates \in CandidateLists
    /\ picks = <<>>
    /\ health = NoHealthCheck
    /\ loop = "none"

\* one call load_balancer.select_agent(candidates)
SelectAgent ==
    /\ Len(picks) < MaxSelects
    /\ LET r == select_agent(strategy, candidates, round_robin_counters)
       IN  /\ ~r.raised
           /\ picks' = Append(picks, r.agent[1])
           /\ round_robin_counters' = r.counters
    /\ UNCHANGED <<agents, agent_types, directory, durable, status, strategy,
                   success_rate, inflight, registering, peer, mcall, calls, candidates,
                   engineVars, requestVars,
                   health, loop>>

NextBalancer == SelectAgent

SpecBalancer == InitBalancer /\ [][NextBalancer]_vars

\* agents 1..load[a] current tasks each
TasksOf(load) ==
    { t \in [ task : 1..MaxLoad, agent : AgentIds ] : t.task <= load[t.agent] }

\* A LoadBalancer(strategy) whose callers hand it a list of their choice at
\* each call, the empty list included.  The agents' current tasks matter to
\* least_busy and their success rates to best_performance only.
InitSelect ==
    /\ FreshEngine
    /\ NoRequest
    /\ agents = {}
    /\ agent_types = [ t \in AgentTypes |-> <<>> ]
    /\ directory = {}
    /\ durable = [ a \in AgentIds |-> 0 ]
    /\ status = [ a \in AgentIds |-> "IDLE" ]
    /\ strategy \in Strategies
    /\ round_robin_counters = [ t \in AgentTypes |-> 0 ]
    /\ success_rate \in [ AgentIds -> 0..MaxRate ]
    /\ (strategy # "best_performance") =>
          (success_rate = [ a \in AgentIds |-> 0 ])
    /\ success_rate["a4"] = 0
    /\ \E load \in [ AgentIds -> 0..MaxLoad ] :
          /\ (strategy # "least_busy") => (load = [ a \in AgentIds |-> 0 ])
          /\ load["a4"] = 0
          /\ inflight = TasksOf(load)
          /\ registering = None
          /\ peer = NoPeer
    /\ mcall = None
    /\ calls = 0
    /\ candidates = <<>>
    /\ picks = <<>>
    /\ health = NoHealthCheck
    /\ loop = "none"

\* one call load_balancer.select_agent(list); mcall keeps the list, what
\* came back and the counters the call found
SelectCall ==
    /\ calls < MaxSelects
    /\ \E list \in CandidateLists \cup {<<>>} :
          LET r == select_agent(strategy, list, round_robin_counters)
          IN  /\ mcall' = Some([ op |-> "select_agent", list |-> list,
                                 ret |-> r.agent, raised |-> r.raised,
                                 before |-> round_robin_counters ])
              /\ round_robin_counters' = r.counters
              /\ candidates' = list
    /\ calls' = calls + 1
    /\ UNCHANGED <<agents, agent_types, directory, durable, status, strategy,
                   success_rate, inflight, registering, peer, picks, engineVars, requestVars,
                   health, loop>>

NextSelect == SelectCall

SpecSelect == InitSelect /\ [][NextSelect]_vars

(***************************************************************************)
(* Dispatch: get_available_agent and execute_task (agent_manager.py:       *)
(* 167-267).  What an agent object does inside can_handle_task and         *)
(* execute_task is not in the available sources; it follows the            *)
(* specification's data model: a capability names a task type and its       *)
(* markets, an agent is BUSY from dispatch to completion, and a failed      *)
(* probe or an expired heartbeat makes it ERROR or OFFLINE.                 *)
(***************************************************************************)
\* the (agent_type, task_type, context.market) triples execute_task is
\* called with: served by several agents, by one, by an agent of another
\* type only, by an agent on another market only, and of a type nobody has
TaskRequests ==
    { <<"market_analyst", "technical_analysis", "US">>,
      <<"market_analyst", "technical_analysis", "CN">>,
      <<"market_analyst", "trading", "US">>,
      <<"trader", "trading", "CN">>,
      <<"trader", "trading", "US">>,
      <<"news_analyst", "technical_analysis", "US">> }

\* the capabilities of the four agent objects: (task type, market) pairs
Capabilities(a) ==
    CASE a = "a1" -> {<<"technical_analysis", "US">>,
                      <<"technical_analysis", "CN">>}
      [] a = "a2" -> {<<"technical_analysis", "US">>}
      [] a = "a3" -> {<<"technical_analysis", "US">>}
      [] OTHER    -> {<<"trading", "US">>}

\* agent.can_handle_task(task_type, market)
can_handle_task(a, task_type, market) ==
    <<task_type, market>> \in Capabilities(a)

\* agent.execute_task: the agent takes the task / is done with it
agent_begins(st, a) == [st EXCEPT ![a] = "BUSY"]
agent_ends(st, a) == [st EXCEPT ![a] = IF @ = "BUSY" THEN "IDLE" ELSE @]

\* agent_manager.py:167-183  get_agents_by_type: the list kept for the type
get_agents_by_type(agent_type) == agent_types[agent_type]

get_available_agent_any_status(agent_type, task_type, market) ==
    LET Available(a) == can_handle_task(a, task_type, market)
        available_agents ==
            SelectSeq(get_agents_by_type(agent_type), Available)
    IN  IF available_agents = <<>>
        THEN [ agent |-> None, counters |-> round_robin_counters ]
        ELSE [ agent |-> select_agent(strategy, available_agents,
                                      round_robin_counters).agent,
               counters |-> select_agent(strategy, available_agents,
                                         round_robin_counters).counters ]

\* agent_manager.py:185-227  get_available_agent: the agent returned (None
\* when no agent is available) and the balancer's counters afterwards
get_available_agent(agent_type, task_type, market) ==
    LET Available(a) ==
            status[a] = "IDLE" /\ can_handle_task(a, task_type, market)
        available_agents ==
            SelectSeq(get_agents_by_type(agent_type), Available)
    IN  IF available_agents = <<>>
        THEN [ agent |-> None, counters |-> round_robin_counters ]
        ELSE [ agent |-> select_agent(strategy, available_agents,
                                      round_robin_counters).agent,
               counters |-> select_agent(strategy, available_agents,
                                         round_robin_counters).counters ]

\* agent_manager.py:257-267  the TaskResult built by the except branch
ErrorResult(task_id) ==
    [ task_id |-> task_id, agent_id |-> "unknown", status |-> "error",
      error |-> Some("exception") ]

\* the TaskResult an agent returns from execute_task
AgentResult(task_id, a, outcome) ==
    [ task_id |-> task_id, agent_id |-> a,
      status |-> IF outcome = "success" THEN "success" ELSE "error",
      error |-> IF outcome = "success" THEN None ELSE Some("agent") ]

\* what agent.execute_task does: returns a success result, returns an error
\* result, or raises
AgentOutcomes == {"success", "error_result", "raises"}

execute_task_propagates(task_id, a, outcome, db) ==
    IF outcome = "raises"
    THEN [ raised |-> TRUE, result |-> None ]
    ELSE [ raised |-> FALSE, result |-> Some(AgentResult(task_id, a, outcome)) ]

\* agent_manager.py:250-267  execute_task after the agent was chosen: the
\* agent's result is recorded (_record_task_result, 367-374, logs its own
\* failures) and returned; an exception of the agent becomes an error result
execute_task_returns(task_id, a, outcome, db) ==
    IF outcome = "raises"
    THEN [ raised |-> FALSE, result |-> Some(ErrorResult(task_id)) ]
    ELSE [ raised |-> FALSE, result |-> Some(AgentResult(task_id, a, outcome)) ]

\* the agents that are working on a task, and every agent's status
Dispatched == [ status |-> status, inflight |-> inflight ]

\* the sets of agents registered on the manager when dispatching starts
RegisteredSets == { AgentIds, {"a2", "a3", "a4"}, {"a1"} }

\* A manager on which some of the agents were registered, in the order of
\* their ids, every write succeeding.
RECURSIVE RegisterAll(_, _)
RegisterAll(reg, ids) ==
    IF ids = <<>> THEN reg
    ELSE RegisterAll(register_agent(reg, Head(ids), "ok", "ok").reg, Tail(ids))

InitDispatch ==
    /\ FreshEngine
    /\ NoRequest
    /\ \E S \in RegisteredSets :
          LET ids == SelectSeq(<<"a1", "a2", "a3", "a4">>, LAMBDA a : a \in S)
              reg == RegisterAll([ agents |-> {},
                                   agent_types |-> [ t \in AgentTypes |-> <<>> ],
                                   directory |-> {},
                                   durable |-> [ a \in AgentIds |-> 0 ] ], ids)
          IN  /\ agents = reg.agents
              /\ agent_types = reg.agent_types
              /\ directory = reg.directory
              /\ durable = reg.durable
    /\ status = [ a \in AgentIds |-> "IDLE" ]
    /\ strategy = "round_robin"
    /\ round_robin_counters = [ t \in AgentTypes |-> 0 ]
    /\ success_rate = [ a \in AgentIds |-> 0 ]
    /\ inflight = {}
    /\ registering = None
    /\ peer = NoPeer
    /\ mcall = None
    /\ calls = 0
    /\ candidates = <<>>
    /\ picks = <<>>
    /\ health = NoHealthCheck
    /\ loop = "none"

\* agent_manager.py:229-255  execute_task up to the point where it waits for
\* the agent: without an agent the except branch returns the error result at
\* once; otherwise the chosen agent starts on the task.
ExecuteTaskDispatch ==
    /\ calls < MaxTasks
    /\ \E req \in TaskRequests :
          LET sel == get_available_agent(req[1], req[2], req[3])
              task == [ task_id |-> calls + 1, agent_type |-> req[1],
                        task_type |-> req[2], market |-> req[3] ]
          IN  IF sel.agent = None
              THEN /\ mcall' = Some([ op |-> "execute_task", task |-> task,
                                      selected |-> None, outcome |-> "none",
                                      db |-> "none", raised |-> FALSE,
                                      ret |-> Some(ErrorResult(task.task_id)),
                                      before |-> Some(Dispatched) ])
                   /\ UNCHANGED <<status, inflight, round_robin_counters>>
              ELSE /\ mcall' = Some([ op |-> "execute_task", task |-> task,
                                      selected |-> sel.agent,
                                      outcome |-> "none", db |-> "none",
                                      raised |-> FALSE, ret |-> None,
                                      before |-> Some(Dispatched) ])
                   /\ status' = agent_begins(status, sel.agent[1])
                   /\ inflight' = inflight \cup
                                     {[ task |-> task, agent |-> sel.agent[1],
                                        found |-> status[sel.agent[1]] ]}
                   /\ round_robin_counters' = sel.counters
    /\ calls' = calls + 1
    /\ UNCHANGED <<agents, agent_types, directory, durable, strategy,
                   success_rate, candidates, picks, engineVars, requestVars,
                   health, loop, registering, peer>>

\* agent_manager.py:250-267  the agent is done: execute_task records and
\* returns its result, or turns its exception into the error result
ExecuteTaskComplete ==
    \E t \in inflight, outcome \in AgentOutcomes, db \in DbOutcomes :
        LET out == execute_task_returns(t.task.task_id, t.agent, outcome, db)
        IN  /\ inflight' = inflight \ {t}
            /\ status' = agent_ends(status, t.agent)
            /\ mcall' = Some([ op |-> "execute_task", task |-> t.task,
                               selected |-> Some(t.agent), outcome |-> outcome,
                               db |-> IF outcome = "raises" THEN "none" ELSE db,
                               raised |-> out.raised, ret |-> out.result,
                               before |-> None ])
            /\ UNCHANGED <<agents, agent_types, directory, durable, strategy,
                           round_robin_counters, success_rate, calls,
                           candidates, picks, engineVars, requestVars,
                   health, loop, registering, peer>>

\* a registered agent fails a health probe or its heartbeat expires
AgentStatusChange ==
    \E a \in agents, s \in {"ERROR", "OFFLINE"} :
        /\ status[a] \in {"IDLE", "BUSY"}
        /\ Cardinality({ b \in AgentIds :
                            status[b] \in {"ERROR", "OFFLINE"} }) < MaxFaults
        /\ status' = [status EXCEPT ![a] = s]
        /\ UNCHANGED <<agents, agent_types, directory, durable, strategy,
                       round_robin_counters, success_rate, inflight, registering, peer, mcall,
                       calls, candidates, picks, engineVars, requestVars,
                   health, loop>>

\* the registered agents whose status is in S
WithStatus(S) == { a \in agents : status[a] \in S }

\* the number of agents of a type list whose status is in S
ListedWithStatus(list, S) ==
    Cardinality({ i \in 1..Len(list) : status[list[i]] \in S })

\* agent_manager.py:269-294  get_system_status (without the timestamp)
get_system_status ==
    LET total_agents == Cardinality(agents)
        active_agents == Cardinality(WithStatus(AgentStatuses \ {"OFFLINE"}))
        busy_agents == Cardinality(WithStatus({"BUSY"}))
        error_agents == Cardinality(WithStatus({"ERROR"}))
    IN  [ total_agents |-> total_agents,
          active_agents |-> active_agents,
          busy_agents |-> busy_agents,
          error_agents |-> error_agents,
          idle_agents |-> active_agents - busy_agents,
          type_statistics |->
              [ t \in AgentTypes |->
                  [ total |-> Len(agent_types[t]),
                    active |-> ListedWithStatus(agent_types[t],
                                  AgentStatuses \ {"OFFLINE"}),
                    busy |-> ListedWithStatus(agent_types[t], {"BUSY"}) ] ] ]

NextDispatch ==
    \/ ExecuteTaskDispatch
    \/ ExecuteTaskComplete
    \/ AgentStatusChange

SpecDispatch == InitDispatch /\ [][NextDispatch]_vars

\* agent_manager.py:137-161  unregister_agent of a registered agent while
\* tasks are dispatched, the Redis and database deletes succeeding: the
\* registry changes, the agent object is not touched
UnregisterDuringDispatch ==
    \E a \in agents :
        LET out == unregister_agent(Registry, a, "ok", "ok")
        IN  /\ agents' = out.reg.agents
            /\ agent_types' = out.reg.agent_types
            /\ directory' = out.reg.directory
            /\ durable' = out.reg.durable
            /\ mcall' = Some([ op |-> "unregister_agent", agent_id |-> a,
                               redis |-> "ok", db |-> "ok", ret |-> out.ret ])
            /\ UNCHANGED <<status, strategy, round_robin_counters,
                           success_rate, inflight, registering, peer, calls, candidates, picks,
                           engineVars, requestVars, health, loop>>

NextLifecycle ==
    \/ ExecuteTaskDispatch
    \/ ExecuteTaskComplete
    \/ AgentStatusChange
    \/ UnregisterDuringDispatch

SpecLifecycle == InitDispatch /\ [][NextLifecycle]_vars

(***************************************************************************)
(* Start-up, health monitoring and shutdown of the manager                 *)
(* (agent_manager.py:74-98, 296-324, 376-394).  What an agent answers to   *)
(* health_check() is an input of each probe: healthy, unhealthy, or an     *)
(* exception.                                                              *)
(***************************************************************************)
RECURSIVE CreateFrom(_, _, _, _, _)
CreateFrom(reg, types, constructed, redis, db) ==
    IF types = <<>> THEN reg
    ELSE CreateFrom(IF Head(types) \in constructed
                    THEN register_agent(reg, DefaultAgent(Head(types)),
                                        redis, db).reg
                    ELSE reg,
                    Tail(types), constructed, redis, db)

create_default_agents_but_last(reg, constructed, redis, db) ==
    CreateFrom(reg, SubSeq(ClassOrder, 1, Len(ClassOrder) - 1), constructed,
               redis, db)

\* agent_manager.py:89-98  _create_default_agents: one agent per entry of
\* agent_classes, registered unless its constructor raised
create_default_agents(reg, constructed, redis, db) ==
    CreateFrom(reg, ClassOrder, constructed, redis, db)

\* the status of an agent object just constructed (base_agent.py is not
\* among the sources; the specification's AgentStatus starts at IDLE)
NewAgentStatus == "IDLE"

\* the first n entries of agent_classes
FirstClasses(n) == { ClassOrder[i] : i \in 1..n }

\* A manager just created: as NoManager, with the default agents among the
\* agent objects.
InitMonitor ==
    /\ FreshEngine
    /\ NoRequest
    /\ agents = {}
    /\ agent_types = [ t \in AgentTypes |-> <<>> ]
    /\ directory = {}
    /\ durable = [ a \in AllAgents |-> 0 ]
    /\ status = [ a \in AllAgents |-> "IDLE" ]
    /\ strategy = "round_robin"
    /\ round_robin_counters = [ t \in AgentTypes |-> 0 ]
    /\ success_rate = [ a \in AllAgents |-> 0 ]
    /\ inflight = {}
    /\ registering = None
    /\ peer = NoPeer
    /\ mcall = None
    /\ calls = 0
    /\ candidates = <<>>
    /\ picks = <<>>
    /\ health = NoHealthCheck
    /\ loop = "none"

\* agent_manager.py:74-87  initialize: the default agents whose constructor
\* succeeds (the first n here) are registered, then the health-check task
\* is created.
ManagerInitialize ==
    /\ mcall = None
    /\ loop = "none"
    /\ \E n \in 0..Len(ClassOrder),
          redis \in RegisterRedisOutcomes, db \in DbOutcomes :
          LET reg == create_default_agents(Registry, FirstClasses(n),
                                           redis, db)
          IN  /\ agents' = reg.agents
              /\ agent_types' = reg.agent_types
              /\ directory' = reg.directory
              /\ durable' = reg.durable
              /\ mcall' = Some([ op |-> "initialize",
                                 constructed |-> FirstClasses(n),
                                 redis |-> redis, db |-> db,
                                 raised |-> FALSE, before |-> Registry ])
              /\ status' = [ a \in AllAgents |->
                               IF a \in { DefaultAgent(t) : t \in FirstClasses(n) }
                               THEN NewAgentStatus ELSE status[a] ]
    /\ loop' = "sleeping"
    /\ UNCHANGED <<strategy, round_robin_counters, success_rate,
                   inflight, registering, peer, calls, candidates, picks, health, engineVars,
                   requestVars>>

\* agent_manager.py:300  self.agents.values(): the registered agents in the
\* order they were registered in, the default agents first
ProbeOrder ==
    SelectSeq([ i \in 1..Len(ClassOrder) |-> DefaultAgent(ClassOrder[i]) ]
                 \o <<"a1", "a2", "a3", "a4">>,
              LAMBDA a : a \in agents)

\* agent_manager.py:304-308  health_ratio > 0.8 with health_ratio =
\* healthy_count / len(self.agents), 0 without agents.  For counts of this
\* size the float comparison is the integer one.
SystemHealthy(healthy_count, total) ==
    IF total = 0 THEN FALSE ELSE 5 * healthy_count > 4 * total

\* agent_manager.py:315-319  the loop's sleep is over and it calls
\* health_check, which starts with healthy_count = 0
LoopWake ==
    /\ loop = "sleeping"
    /\ calls < MaxCycles
    /\ calls' = calls + 1
    /\ loop' = "checking"
    /\ health' = [ pc |-> "probing", order |-> ProbeOrder, position |-> 0,
                   healthy_count |-> 0, raised_by |-> None, ret |-> None ]
    /\ UNCHANGED <<agents, agent_types, directory, durable, status, strategy,
                   round_robin_counters, success_rate, inflight, registering, peer, mcall,
                   candidates, picks, engineVars, requestVars>>

\* agent_manager.py:300  the for loop asks the iterator of
\* self.agents.values() for the next agent: when the dict has another size
\* than at the start of the iteration, that raises RuntimeError (dictionary
\* changed size during iteration)
SizeChanged(order) == Cardinality(agents) # Len(order)

\* agent_manager.py:300-302, 310-313  the probe the cycle was suspended in
\* answers and is counted, and the for loop goes to the next agent; an
\* exception of the probe, or of the iterator, leaves the loop for the
\* except branch, which returns False
Probe ==
    /\ loop = "checking"
    /\ health.pc = "probing"
    /\ health.position < Len(health.order)
    /\ \E answer \in {"healthy", "unhealthy", "raises"} :
          health' =
              IF answer = "raises"
              THEN [health EXCEPT
                      !.pc = "done",
                      !.raised_by = Some(health.order[health.position + 1]),
                      !.ret = Some(FALSE)]
              ELSE [health EXCEPT
                      !.position = @ + 1,
                      !.healthy_count =
                          IF answer = "healthy" THEN @ + 1 ELSE @,
                      !.pc = IF SizeChanged(health.order)
                             THEN "done" ELSE @,
                      !.ret = IF SizeChanged(health.order)
                              THEN Some(FALSE) ELSE @]
    /\ UNCHANGED <<agents, agent_types, directory, durable, status, strategy,
                   round_robin_counters, success_rate, inflight, registering, peer, mcall, calls,
                   candidates, picks, loop, engineVars, requestVars>>

\* agent_manager.py:304-308  every agent was probed: the ratio is computed
\* and compared
HealthCheckReturn ==
    /\ loop = "checking"
    /\ health.pc = "probing"
    /\ health.position = Len(health.order)
    /\ health' = [health EXCEPT
                    !.pc = "done",
                    !.ret = Some(SystemHealthy(health.healthy_count,
                                               Cardinality(agents)))]
    /\ UNCHANGED <<agents, agent_types, directory, durable, status, strategy,
                   round_robin_counters, success_rate, inflight, registering, peer, mcall, calls,
                   candidates, picks, loop, engineVars, requestVars>>

\* A loop that gives up when a cycle has reported the system unhealthy.
AfterCycleStopsWhenUnhealthy(ret) ==
    IF ret = Some(FALSE) THEN "ended" ELSE "sleeping"

\* agent_manager.py:317-323  while True: whatever health_check returned
\* (its result is not looked at), the loop goes back to its sleep
AfterCycle(ret) == "sleeping"

\* agent_manager.py:317-319  health_check returned: the loop sleeps again
LoopSleep ==
    /\ loop = "checking"
    /\ health.pc = "done"
    /\ loop' = AfterCycle(health.ret)
    /\ UNCHANGED <<agents, agent_types, directory, durable, status, strategy,
                   round_robin_counters, success_rate, inflight, registering, peer, mcall, calls,
                   candidates, picks, health, engineVars, requestVars>>

NextHealth ==
    \/ ManagerInitialize
    \/ LoopWake
    \/ Probe
    \/ HealthCheckReturn
    \/ LoopSleep

SpecHealth == InitMonitor /\ [][NextHealth]_vars

\* agent_manager.py:100-161  register_agent or unregister_agent, called by
\* another task, runs while the cycle is suspended in a probe (302): an
\* agent that is not registered is registered, or the agent registered
\* first is unregistered, the Redis and database writes succeeding.  One
\* change per cycle.
RegistryChangeDuringProbe ==
    /\ loop = "checking"
    /\ health.pc = "probing"
    /\ health.position < Len(health.order)
    /\ ~SizeChanged(health.order)
    /\ \E a \in {"a1", health.order[1]} :
          LET out == IF a \in agents
                     THEN unregister_agent(Registry, a, "ok", "ok")
                     ELSE register_agent(Registry, a, "ok", "ok")
          IN  /\ agents' = out.reg.agents
              /\ agent_types' = out.reg.agent_types
              /\ directory' = out.reg.directory
              /\ durable' = out.reg.durable
              /\ mcall' = Some([ op |-> IF a \in agents
                                        THEN "unregister_agent"
                                        ELSE "register_agent",
                                 agent_id |-> a, ret |-> out.ret,
                                 position |-> health.position ])
    /\ UNCHANGED <<status, strategy, round_robin_counters, success_rate,
                   inflight, registering, peer, calls, candidates, picks, health, loop,
                   engineVars, requestVars>>

NextOverlap ==
    \/ ManagerInitialize
    \/ LoopWake
    \/ Probe
    \/ HealthCheckReturn
    \/ LoopSleep
    \/ RegistryChangeDuringProbe

SpecOverlap == InitMonitor /\ [][NextOverlap]_vars

\* ---------------------------------------------------------------------
\* register_agent as the coroutine it is.  Lines 107-116 run without a
\* suspension: the duplicate check, the insertion into self.agents and the
\* append to the type list.  The call then awaits _register_to_redis (121)
\* and _save_agent_to_db (125), and other coroutines of the manager run
\* while it is suspended in either.  All writes succeed here, so that what
\* is observed is the effect of the interleaving alone.
\* ---------------------------------------------------------------------

\* agent_manager.py:100-116  register_agent up to its first await
RegisterBegin ==
    /\ registering = None
    /\ calls < MaxCalls
    /\ calls' = calls + 1
    /\ \E a \in AgentIds :
        IF a \in agents
        THEN /\ mcall' = Some([ op |-> "register_agent", agent_id |-> a,
                                redis |-> "ok", db |-> "ok", ret |-> FALSE,
                                before |-> Registry ])
             /\ UNCHANGED <<agents, agent_types, registering>>
        ELSE /\ agents' = agents \cup {a}
             /\ agent_types' =
                    [agent_types EXCEPT ![AgentTypeOf(a)] = Append(@, a)]
             /\ registering' = Some([ agent_id |-> a, at |-> "redis" ])
             /\ UNCHANGED mcall
    /\ UNCHANGED <<directory, durable, status, strategy,
                   round_robin_counters, success_rate, inflight, candidates,
                   picks, health, loop, engineVars, requestVars,
                   peer>>

\* agent_manager.py:118-131  register_agent resumed: the Redis write of
\* _register_to_redis (326-339), then the insert of _save_agent_to_db
\* (349-356) and the return of True
RegisterWrite ==
    /\ registering # None
    /\ LET r == registering[1]
       IN  IF r.at = "redis"
           THEN /\ directory' = register_to_redis(directory, r.agent_id, "ok")
                /\ registering' = Some([ r EXCEPT !.at = "db" ])
                /\ UNCHANGED <<durable, mcall>>
           ELSE /\ durable' = save_agent_to_db(durable, r.agent_id, "ok")
                /\ registering' = None
                /\ mcall' = Some([ op |-> "register_agent",
                                   agent_id |-> r.agent_id,
                                   redis |-> "ok", db |-> "ok", ret |-> TRUE,
                                   before |-> Registry ])
                /\ UNCHANGED directory
    /\ UNCHANGED <<agents, agent_types, status, strategy,
                   round_robin_counters, success_rate, inflight, calls,
                   candidates, picks, health, loop, engineVars, requestVars,
                   peer>>

\* agent_manager.py:137-161  unregister_agent, run to its end while the
\* registration is suspended or after it has returned
UnregisterMeanwhile ==
    \E a \in AgentIds :
        ManagerCall("unregister_agent", a, "ok", "ok",
                    unregister_agent(Registry, a, "ok", "ok"))

NextRace ==
    \/ RegisterBegin
    \/ RegisterWrite
    \/ UnregisterMeanwhile

SpecRace == Init /\ [][NextRace]_vars

\* cleanup goes on to unregister without waiting for a task whose
\* cancellation was only requested
TaskOverOrCancelling(l) == l \in {"none", "ended", "cancelling"}

\* agent_manager.py:379-384  if self.health_check_task: ... await
\* self.health_check_task: the await is over once the task has ended; without
\* a task there is nothing to wait for
TaskOver(l) == l \in {"none", "ended"}

\* agent_manager.py:387-388  for agent_id in list(self.agents.keys()):
\* await self.unregister_agent(agent_id)
RECURSIVE UnregisterAll(_, _, _, _)
UnregisterAll(reg, ids, redis, db) ==
    IF ids = <<>> THEN reg
    ELSE UnregisterAll(unregister_agent(reg, Head(ids), redis, db).reg,
                       Tail(ids), redis, db)

\* cleanup has returned
CleanupReturned == mcall # None /\ mcall[1].op = "cleanup"

\* agent_manager.py:379-382  cleanup with a health-check task:
\* self.health_check_task.cancel(), then cleanup waits for the task
CleanupCancel ==
    /\ loop \in {"sleeping", "checking"}
    /\ loop' = "cancelling"
    /\ UNCHANGED <<agents, agent_types, directory, durable, status, strategy,
                   round_robin_counters, success_rate, inflight, registering, peer, mcall, calls,
                   candidates, picks, health, engineVars, requestVars>>

\* agent_manager.py:316-322  CancelledError is raised at the await the task
\* is suspended in (the sleep, or the probe inside health_check, whose
\* except Exception does not catch it); the loop breaks and the task ends
LoopCancelled ==
    /\ loop = "cancelling"
    /\ loop' = "ended"
    /\ health' = IF health.pc = "probing"
                 THEN [health EXCEPT !.pc = "cancelled"]
                 ELSE health
    /\ UNCHANGED <<agents, agent_types, directory, durable, status, strategy,
                   round_robin_counters, success_rate, inflight, registering, peer, mcall, calls,
                   candidates, picks, engineVars, requestVars>>

\* agent_manager.py:383-394  the wait is over: every registered agent is
\* unregistered and cleanup returns; except Exception logs what is raised
CleanupUnregister ==
    /\ ~CleanupReturned
    /\ TaskOver(loop)
    /\ \E redis \in UnregisterRedisOutcomes, db \in DbOutcomes :
          LET reg == UnregisterAll(Registry, ProbeOrder, redis, db)
          IN  /\ agents' = reg.agents
              /\ agent_types' = reg.agent_types
              /\ directory' = reg.directory
              /\ durable' = reg.durable
              /\ mcall' = Some([ op |-> "cleanup", redis |-> redis,
                                 db |-> db, raised |-> FALSE,
                                 before |-> Registry ])
    /\ UNCHANGED <<status, strategy, round_robin_counters, success_rate,
                   inflight, registering, peer, calls, candidates, picks, health, loop,
                   engineVars, requestVars>>

NextShutdown ==
    \/ ManagerInitialize
    \/ LoopWake
    \/ Probe
    \/ HealthCheckReturn
    \/ LoopSleep
    \/ CleanupCancel
    \/ LoopCancelled
    \/ CleanupUnregister

SpecShutdown == InitMonitor /\ [][NextShutdown]_vars

(***************************************************************************)
(* Properties                                                              *)
(***************************************************************************)
InTraversal == pc \in {"astream", "ainvoke"}

\* the graph a traversal runs on
Graph == compiled_graph[1]

OtherSpeaker(n) ==
    IF n = "bull_researcher" THEN "bear_researcher" ELSE "bull_researcher"

RiskSuccessor(n) ==
    CASE n = "risky_analyst"   -> "safe_analyst"
      [] n = "safe_analyst"    -> "neutral_analyst"
      [] n = "neutral_analyst" -> "risky_analyst"

\* executions of the debate stages / the risk stages in the current traversal
DebateExecutions == executed["bull_researcher"] + executed["bear_researcher"]
RiskExecutions ==
    executed["risky_analyst"] + executed["safe_analyst"]
    + executed["neutral_analyst"]

\* executions of all stages in the current traversal
Executions ==
    executed["test_start"] + executed["market_analyst"]
    + executed["fundamentals_analyst"] + executed["news_analyst"]
    + executed["social_analyst"] + DebateExecutions
    + executed["research_manager"] + executed["trader"] + RiskExecutions
    + executed["risk_manager"]

\* the c-th speaker of a risk region entered at risky_analyst
RiskSpeaker(c) == RiskCycle[((c - 1) % 3) + 1]

\* the current GraphState as it would be had the debate stage that just ran
\* been the c-th one
DebateInput(c) == [state EXCEPT !.debate_count = c]

\* the current GraphState as it would be had the risk stage that just ran
\* been the c-th one of the cycle
RiskInput(c) ==
    [state EXCEPT !.risk_count = c,
                  !.risk_latest_speaker = Some(RiskSpeaker(c))]

\* C1: with max_debate_rounds = N in {1,2,3} and debate_count = c >= 1, the
\* stage that follows a bull_researcher or bear_researcher execution is
\* research_manager exactly when c >= 2N, and otherwise the speaker other
\* than the one that just ran; the debate stages run in the order bull,
\* bear, bull, bear, ...  The router answers the same way for every count
\* c in 1..MaxCount put in place of the current one.
C1_DebateRouting ==
    (InTraversal /\ last.node \in DebateNodes) =>
       LET N == Graph.logic.max_debate_rounds
           c == state.debate_count
       IN  /\ N \in 1..3
           /\ c >= 1
           /\ (node = "research_manager") <=> (c >= 2 * N)
           /\ (c < 2 * N) => (node = OtherSpeaker(last.node))
           /\ last.node = IF DebateExecutions % 2 = 1
                          THEN "bull_researcher" ELSE "bear_researcher"
           /\ \A k \in 1..MaxCount :
                 LET r == should_continue_debate(Graph.logic, DebateInput(k))
                 IN  /\ (r = "research_manager") <=> (k >= 2 * N)
                     /\ (k < 2 * N) => (r = OtherSpeaker(last.node))

\* C1 witness: the fourth debate execution of a three-round debate was the
\* bear and the bull is next.
C1_Witness ==
    /\ InTraversal
    /\ last.node = "bear_researcher"
    /\ state.debate_count = 4
    /\ Graph.logic.max_debate_rounds = 3
    /\ node = "bull_researcher"

\* C2: with max_risk_rounds = N in {1,2,3} and risk_count = c >= 1, the stage
\* that follows a risky, safe or neutral execution is risk_manager exactly
\* when c >= 3N, and otherwise the next speaker of the cycle risky -> safe ->
\* neutral -> risky; with N = 1 the run Risky(1), Safe(2), Neutral(3) reaches
\* risk_manager at count 3 and not earlier.  The router answers the same
\* way for every count c in 1..MaxCount put in place of the current one.
C2_RiskRouting ==
    (InTraversal /\ last.node \in RiskNodes) =>
       LET N == Graph.logic.max_risk_rounds
           c == state.risk_count
       IN  /\ N \in 1..3
           /\ c >= 1
           /\ (node = "risk_manager") <=> (c >= 3 * N)
           /\ (c < 3 * N) => (node = RiskSuccessor(last.node))
           /\ last.node = RiskSpeaker(RiskExecutions)
           /\ (N = 1 /\ node = "risk_manager") =>
                 (c = 3 /\ last.node = "neutral_analyst")
           /\ \A k \in 1..MaxCount :
                 LET r == should_continue_risk_analysis(Graph.logic, RiskInput(k))
                 IN  /\ (r = "risk_manager") <=> (k >= 3 * N)
                     /\ (k < 3 * N) => (r = RiskSuccessor(RiskSpeaker(k)))

\* C2 witness: with one risk round the neutral analyst ran third and
\* risk_manager is next.
C2_Witness ==
    /\ InTraversal
    /\ Graph.logic.max_risk_rounds = 1
    /\ last.node = "neutral_analyst"
    /\ state.risk_count = 3
    /\ executed["risky_analyst"] = 1
    /\ executed["safe_analyst"] = 1
    /\ node = "risk_manager"

\* the longest traversal of a graph: test_start, the analysts, the debate,
\* research_manager and trader, the risk region, risk_manager
TraversalLength(g) ==
    1 + Len(g.analysts) + 2 * g.logic.max_debate_rounds + 2
      + 3 * g.logic.max_risk_rounds + 1

Region(n) ==
    CASE n = "test_start"       -> 0
      [] n \in AnalystNodes     -> 1
      [] n \in DebateNodes      -> 2
      [] n = "research_manager" -> 3
      [] n = "trader"           -> 4
      [] n \in RiskNodes        -> 5
      [] n = "risk_manager"     -> 6
      [] n = END                -> 7

\* C5: in a traversal the stages run one at a time in region order: the
\* analysts of the graph in their configured order, the debate region
\* entered at bull_researcher, research_manager, trader, the risk region
\* entered at risky_analyst, risk_manager, END; no stage of a later region
\* has run while an earlier region is not left, and research_manager ->
\* trader and trader -> risky_analyst are unconditional.
C5_StageOrder ==
    InTraversal =>
       LET analysts == Graph.analysts
       IN  /\ step_count = Executions
           /\ (last.node = "none") => (node = "test_start" /\ step_count = 0)
           /\ (last.node = "test_start") => (node = AnalystNode(analysts[1]))
           /\ \A i \in 1..Len(analysts) :
                 (last.node = AnalystNode(analysts[i])) =>
                    (node = IF i < Len(analysts)
                            THEN AnalystNode(analysts[i + 1])
                            ELSE "bull_researcher")
           /\ (last.node = "research_manager") => (node = "trader")
           /\ (last.node = "trader") => (node = "risky_analyst")
           /\ (last.node = "risk_manager") => (node = END)
           /\ \A m \in Nodes :
                 (executed[m] > 0) =>
                    (Region(m) <= Region(node) /\ Region(m) <= Region(last.node))
           /\ \A a \in Analysts :
                 executed[AnalystNode(a)] =
                    IF /\ \E i \in 1..Len(analysts) : analysts[i] = a
                       /\ \/ Region(node) >= 2
                          \/ /\ Region(node) = 1
                             /\ AnalystIndex(analysts, AnalystNode(a))
                                   < AnalystIndex(analysts, node)
                    THEN 1 ELSE 0
           /\ executed["research_manager"] = IF Region(node) >= 4 THEN 1 ELSE 0
           /\ executed["trader"] = IF Region(node) >= 5 THEN 1 ELSE 0
           /\ executed["risk_manager"] = IF Region(node) >= 7 THEN 1 ELSE 0
           /\ (Region(node) >= 3) => (executed["bull_researcher"] >= 1)
           /\ (Region(node) >= 6) => (executed["risky_analyst"] >= 1)

\* C5 witness: a graph built for the analysts social, market in that order
\* has been traversed to END.
C5_Witness ==
    /\ InTraversal
    /\ node = END
    /\ Graph.analysts = <<"social", "market">>
    /\ executed["social_analyst"] = 1
    /\ executed["market_analyst"] = 1
    /\ last.node = "risk_manager"

\* the stages claim C6 names, for the graph in use
OnceStages ==
    { AnalystNode(Graph.analysts[i]) : i \in 1..Len(Graph.analysts) }
    \cup {"research_manager", "trader", "risk_manager"}

\* C6: within one call to analyze_stock each selected analyst stage,
\* research_manager, trader and risk_manager is executed exactly once: when
\* the call returns, the executions of the streamed traversal and of the
\* invoked traversal add up to 1 for each of them, and never exceed 1 while
\* the call runs.
C6_SingleTraversal ==
    /\ (pc = "returned") =>
          \A n \in OnceStages : streamed[n] + executed[n] = 1
    /\ InTraversal =>
          \A n \in OnceStages : streamed[n] + executed[n] <= 1

\* the round budgets of a configuration
Rounds(cfg) == <<cfg.max_debate_rounds, cfg.max_risk_rounds>>

\* C7: after update_config with research_depth d the round budgets
\* (max_debate_rounds, max_risk_rounds) are (1,1) for d = 1, (1,1) for d = 2,
\* (2,2) for d = 3, (3,2) for d = 4 and (3,3) for d = 5; after update_config
\* without research_depth both are what they were before the call.
C7_DepthTable ==
    (call # None) =>
       LET req == call[1].req
           before == call[1].before
       IN  IF req.research_depth = None
           THEN Rounds(config) = Rounds(before)
           ELSE LET d == req.research_depth[1]
                IN  /\ (d = 1) => (Rounds(config) = <<1, 1>>)
                    /\ (d = 2) => (Rounds(config) = <<1, 1>>)
                    /\ (d = 3) => (Rounds(config) = <<2, 2>>)
                    /\ (d = 4) => (Rounds(config) = <<3, 2>>)
                    /\ (d = 5) => (Rounds(config) = <<3, 3>>)

\* C7 witness: update_config with depth 4 alone took a configuration with
\* the budgets (1,1) to (3,2).
C7_Witness ==
    /\ call # None
    /\ call[1].req.research_depth = Some(4)
    /\ call[1].req.analysts = None
    /\ Rounds(call[1].before) = <<1, 1>>
    /\ Rounds(config) = <<3, 2>>

\* C8: a graph built before update_config changed the analyst subset or the
\* research depth is not run: every traversal runs on a graph whose analyst
\* list and whose routing budgets are those of the current configuration.
C8_GraphMatchesConfig ==
    InTraversal =>
       /\ Graph.analysts = config.selected_analysts
       /\ Graph.logic = ConditionalLogic(config)

\* the report slots of a GraphState
ReportSlots(st) ==
    << st.technical_report, st.fundamentals_report, st.news_report,
       st.social_report, st.bull_opinion, st.bear_opinion,
       st.research_decision, st.investment_plan, st.final_decision,
       st.neutral_opinion, st.bull_analysis, st.bear_analysis,
       st.risk_assessment, st.final_recommendation >>

\* the slot of a stage that runs once in a traversal
SlotOf(n, st) ==
    CASE n = "market_analyst"       -> st.technical_report
      [] n = "fundamentals_analyst" -> st.fundamentals_report
      [] n = "news_analyst"         -> st.news_report
      [] n = "social_analyst"       -> st.social_report
      [] n = "research_manager"     -> st.research_decision
      [] n = "trader"               -> st.investment_plan

\* C9: when a stage other than risk_manager raises a worker-level error the
\* pipeline goes on: exactly one message is appended to errors, the errors
\* recorded before are kept in order, every report slot keeps the value it
\* had (unset for a stage that had not produced it), the traversal is not
\* aborted, and the next stage is the one that follows a successful
\* execution of the same stage.
C9_StageFailure ==
    (InTraversal /\ ~last.ok /\ last.node # "risk_manager") =>
       LET before == last.before
           n == Len(before.errors)
       IN  /\ Len(state.errors) = n + 1
           /\ SubSeq(state.errors, 1, n) = before.errors
           /\ ReportSlots(state) = ReportSlots(before)
           /\ (last.node \in AnalystNodes \cup {"research_manager", "trader"})
                 => (SlotOf(last.node, state) = None)
           /\ step_count = Executions
           /\ node # END
           /\ ENABLED GraphStepErrors
           /\ node = NextNode(Graph, last.node,
                        StageBookkeeping(last.node,
                           NodeFunction(last.node, before, TRUE, step_count)))

\* C9 witness: the trader failed after the market analyst had failed; both
\* messages are recorded in order and the risk region is entered.
C9_Witness ==
    /\ InTraversal
    /\ last.node = "trader"
    /\ ~last.ok
    /\ state.errors = <<"market_analysis_failed", "trading_strategy_failed">>
    /\ state.investment_plan = None
    /\ state.research_decision # None
    /\ node = "risky_analyst"

\* C10: a failure of risk_manager is fatal to the request: analyze_stock
\* does not return a result and does not report 100% progress.
C10_TerminalFailureFatal ==
    (last.node = "risk_manager" /\ ~last.ok) =>
       /\ pc # "returned"
       /\ result = None
       /\ \A i \in 1..Len(progress) : progress[i] # 100

\* the routing of the graph in use cannot leave a cyclic region within the
\* recursion limit
StuckGraph ==
    \/ 2 * Graph.logic.max_debate_rounds >= RecursionLimit
    \/ 3 * Graph.logic.max_risk_rounds >= RecursionLimit

\* C11: the recursion limit of 100 bounds the stage executions of a
\* traversal whatever the round counters say: a traversal never executes
\* more than 100 stages; while routing keeps choosing a speaker of a cyclic
\* region the stages keep running (the counters grow past any configured
\* budget) until the limit aborts the traversal; analyze_stock then reports
\* the failed progress update 0, returns no result and raises, and with
\* such routing it never returns normally.
C11_RecursionCeiling ==
    /\ step_count <= RecursionLimit
    /\ InTraversal => (step_count = Executions)
    /\ (InTraversal /\ node # END) => ENABLED GraphStepLoop
    /\ (pc = "raised") =>
          /\ StuckGraph
          /\ step_count = RecursionLimit
          /\ node # END
          /\ progress = <<5, 10, 15, 0>>
          /\ result = None
    /\ (StuckGraph /\ pc # "idle") =>
          (pc \in {"astream", "raised"} /\ node # END)

\* C11 witness: with debate routing that never selects research_manager the
\* streamed traversal was aborted after 100 executions, 95 of them in the
\* debate region.
C11_Witness ==
    /\ pc = "raised"
    /\ step_count = RecursionLimit
    /\ Executions = RecursionLimit
    /\ state.debate_count = 95
    /\ executed["research_manager"] = 0
    /\ progress = <<5, 10, 15, 0>>

NonDecreasing(seq) ==
    \A i \in 1..Len(seq) : \A j \in i..Len(seq) : seq[i] <= seq[j]

\* C12: for one request the percents passed to progress_callback and the
\* progress_percentage values stored for it never decrease, on the failure
\* path as well; the stored sequence starts at 0; 100 is passed to the
\* callback only by a call that returns and stored only as the last value
\* of a completed request.
C12_MonotonicProgress ==
    /\ NonDecreasing(progress)
    /\ NonDecreasing(stored)
    /\ (stored # <<>>) => (stored[1] = 0)
    /\ \A i \in 1..Len(progress) :
          (progress[i] = 100) => (pc = "returned")
    /\ \A i \in 1..Len(stored) :
          (stored[i] = 100) => (rpc = "completed" /\ i = Len(stored))

\* v is a value that the given worker's analyze() returned
ProducedBy(v, worker) == v # None /\ v[1][1] = worker

\* C13: when analyze_stock returns after a traversal in which no stage
\* failed, the result's final recommendation is what the risk_manager stage
\* produced, its investment plan is what the trader stage produced, and its
\* bull and bear research entries are what the bull and bear researcher
\* stages produced.
C13_FinalResultFields ==
    (pc = "returned" /\ state.errors = <<>>) =>
        /\ result # None
        /\ ProducedBy(result[1].final_recommendation, "risk_manager")
        /\ result[1].final_recommendation = state.final_decision
        /\ ProducedBy(result[1].investment_plan, "trader")
        /\ ProducedBy(result[1].bull_analysis, "bull_researcher")
        /\ ProducedBy(result[1].bear_analysis, "bear_researcher")

\* the last completed registry call, if it was op
Called(op) == mcall # None /\ mcall[1].op = op

InTypeList(a) ==
    \E i \in 1..Len(agent_types[AgentTypeOf(a)]) :
        agent_types[AgentTypeOf(a)][i] = a

\* C14: register_agent with an agent_id that is already in the registry
\* returns false and leaves the local index, the per-type lists, the
\* directory and the durable records exactly as they were before the call.
C14_DuplicateRegistration ==
    (Called("register_agent") /\ mcall[1].agent_id \in mcall[1].before.agents)
        => (mcall[1].ret = FALSE /\ Registry = mcall[1].before)

C14_Witness ==
    /\ Called("register_agent")
    /\ mcall[1].agent_id \in mcall[1].before.agents
    /\ mcall[1].agent_id \in mcall[1].before.directory
    /\ mcall[1].before.durable[mcall[1].agent_id] = 1
    /\ mcall[1].redis = "ok" /\ mcall[1].db = "ok"
    /\ mcall[1].ret = FALSE

\* C15 (as claimed): unregister_agent with an unknown agent_id returns false
\* and changes nothing; with a known id it returns true, and afterwards
\* get_agent(id) returns nothing, the agent is absent from its type list,
\* and its directory entry and durable record are deleted.
C15_Unregister ==
    Called("unregister_agent") =>
        LET c == mcall[1]
            a == mcall[1].agent_id
        IN  IF a \notin c.before.agents
            THEN c.ret = FALSE /\ Registry = c.before
            ELSE /\ c.ret = TRUE
                 /\ get_agent(a) = None
                 /\ ~InTypeList(a)
                 /\ a \notin directory
                 /\ durable[a] = 0

\* C15 (amended): unregister_agent with an unknown agent_id returns false
\* and changes nothing; with a known id it returns true, and afterwards
\* get_agent(id) returns nothing and the agent is absent from its type list;
\* its directory entry is deleted when the Redis delete succeeds, and one
\* durable record of the id is deleted when the database is connected and
\* its delete succeeds; a failing delete leaves the entry or record as it
\* was.  Nothing of any other agent changes.
C15_UnregisterTolerant ==
    Called("unregister_agent") =>
        LET c == mcall[1]
            a == mcall[1].agent_id
        IN  IF a \notin c.before.agents
            THEN c.ret = FALSE /\ Registry = c.before
            ELSE /\ c.ret = TRUE
                 /\ get_agent(a) = None
                 /\ ~InTypeList(a)
                 /\ agents = c.before.agents \ {a}
                 /\ \A t \in AgentTypes \ {AgentTypeOf(a)} :
                       agent_types[t] = c.before.agent_types[t]
                 /\ directory = IF c.redis = "ok"
                                THEN c.before.directory \ {a}
                                ELSE c.before.directory
                 /\ durable = IF c.db = "ok" /\ c.before.durable[a] > 0
                              THEN [c.before.durable EXCEPT ![a] = @ - 1]
                              ELSE c.before.durable

C15_Witness ==
    /\ Called("unregister_agent")
    /\ mcall[1].agent_id \in mcall[1].before.agents
    /\ mcall[1].redis = "delete_failed" /\ mcall[1].db = "failed"
    /\ mcall[1].ret = TRUE
    /\ mcall[1].agent_id \notin agents
    /\ mcall[1].agent_id \in directory
    /\ durable[mcall[1].agent_id] = 1

\* C16 (as claimed): after any completed sequence of register_agent and
\* unregister_agent calls, every agent_id is either in both the local index
\* and the directory or in neither.
C16_IndexDirectoryAgree ==
    \A a \in AgentIds : (a \in agents) <=> (a \in directory)

\* C16 (amended): a register_agent or unregister_agent call that returns
\* true and whose directory write (hset / delete) succeeds leaves that
\* agent_id either in both the local index and the directory or in neither,
\* and no call changes the local or directory entry of another agent_id.
C16_AgreeAfterMirroring ==
    (mcall # None) =>
        LET c == mcall[1]
            a == mcall[1].agent_id
        IN  /\ (c.ret = TRUE /\ c.redis \notin {"hset_failed", "delete_failed"})
                  => ((a \in agents) <=> (a \in directory))
            /\ \A b \in AgentIds \ {a} :
                  /\ (b \in agents) <=> (b \in c.before.agents)
                  /\ (b \in directory) <=> (b \in c.before.directory)

C16_Witness ==
    /\ Called("unregister_agent")
    /\ mcall[1].ret = TRUE /\ mcall[1].redis = "ok"
    /\ mcall[1].agent_id \in mcall[1].before.directory
    /\ mcall[1].agent_id \notin agents
    /\ mcall[1].agent_id \notin directory
    /\ \E b \in agents : b \in directory

\* C17: when mirroring to the directory or persisting to durable storage
\* fails during register_agent of a new id, register_agent still returns
\* true, the agent is in the local index and in its type list, and the other
\* sub-step has been carried out all the same.
C17_PartialFailureTolerant ==
    ( /\ Called("register_agent")
      /\ mcall[1].agent_id \notin mcall[1].before.agents
      /\ (mcall[1].redis # "ok" \/ mcall[1].db # "ok") ) =>
        LET c == mcall[1]
            a == mcall[1].agent_id
        IN  /\ c.ret = TRUE
            /\ get_agent(a) = Some(a)
            /\ InTypeList(a)
            /\ (c.db = "ok") => (durable[a] = c.before.durable[a] + 1)
            /\ (c.redis # "hset_failed") => (a \in directory)

C17_Witness ==
    /\ Called("register_agent")
    /\ mcall[1].agent_id \notin mcall[1].before.agents
    /\ mcall[1].redis = "hset_failed" /\ mcall[1].db = "ok"
    /\ mcall[1].ret = TRUE
    /\ mcall[1].agent_id \in agents
    /\ mcall[1].agent_id \notin directory
    /\ durable[mcall[1].agent_id] = 1

\* Python's list index of the i-th element of a TLA+ sequence
IndexOf(list, a) == (CHOOSE i \in 1..Len(list) : list[i] = a) - 1

\* how often agent a occurs among picks[from..to]
Selections(a, from, to) ==
    Cardinality({ i \in from..to : picks[i] = a })

\* C20: with the round_robin strategy and a fixed list of k agents of one
\* type, the successive select_agent calls of a balancer return the agents
\* at indices 0, 1, ..., k-1, 0, 1, ... in that order, and in any k*n
\* consecutive calls each agent of the list is selected exactly n times.
C20_RoundRobinOrder ==
    (strategy = "round_robin") =>
        LET k == Len(candidates)
        IN  /\ \A i \in 1..Len(picks) :
                  IndexOf(candidates, picks[i]) = (i - 1) % k
            /\ \A from \in 1..Len(picks) : \A n \in 1..MaxSelects :
                  (from + k * n - 1 <= Len(picks)) =>
                      \A j \in 1..k :
                          Selections(candidates[j], from,
                                     from + k * n - 1) = n

C20_Witness ==
    /\ strategy = "round_robin"
    /\ candidates = <<"a2", "a3", "a1">>
    /\ picks = <<"a2", "a3", "a1", "a2", "a3", "a1">>
    /\ round_robin_counters["market_analyst"] = 6

\* the latest execute_task call has chosen its agent (or found none) and has
\* not yet got the agent's answer
AtDispatch ==
    mcall # None /\ mcall[1].op = "execute_task" /\ mcall[1].before # None

\* the latest execute_task call has returned or raised
TaskReturned ==
    /\ mcall # None /\ mcall[1].op = "execute_task"
    /\ (mcall[1].ret # None \/ mcall[1].raised)

\* C18: the agent get_available_agent chooses is registered at that moment,
\* is of exactly the requested type, has status IDLE and can handle the task
\* type on the market; execute_task hands the task to that agent and to no
\* other, so an agent that is BUSY, ERROR or OFFLINE never receives a task
\* and no agent works on two tasks of the manager at once.
C18_OnlyIdleCapable ==
    /\ (AtDispatch /\ mcall[1].selected # None) =>
          LET c == mcall[1]
              a == mcall[1].selected[1]
          IN  /\ a \in agents
              /\ InTypeList(a)
              /\ AgentTypeOf(a) = c.task.agent_type
              /\ c.before[1].status[a] = "IDLE"
              /\ can_handle_task(a, c.task.task_type, c.task.market)
              /\ inflight = c.before[1].inflight \cup
                               {[ task |-> c.task, agent |-> a,
                                  found |-> "IDLE" ]}
    /\ \A t \in inflight :
          /\ t.found = "IDLE"
          /\ t.agent \in agents
          /\ AgentTypeOf(t.agent) = t.task.agent_type
          /\ can_handle_task(t.agent, t.task.task_type, t.task.market)
          /\ \A u \in inflight : (u.agent = t.agent) => (u = t)

C18_Witness ==
    /\ AtDispatch
    /\ mcall[1].selected = Some("a3")
    /\ mcall[1].task.agent_type = "market_analyst"
    /\ mcall[1].task.market = "US"
    /\ mcall[1].before[1].status["a1"] = "BUSY"
    /\ mcall[1].before[1].status["a2"] \in {"ERROR", "OFFLINE"}
    /\ status["a3"] = "BUSY"

\* C19 (as claimed): execute_task never raises; when there is no idle and
\* capable agent of the requested type, when the agent fails, or when
\* recording the result fails, it returns a TaskResult with status error,
\* the task's task_id and an error message; in the no-agent case no agent
\* is invoked.
C19_ErrorResultOnEveryFailure ==
    TaskReturned =>
        LET c == mcall[1]
        IN  /\ ~c.raised
            /\ c.ret # None
            /\ ( \/ c.selected = None
                 \/ c.outcome \in {"raises", "error_result"}
                 \/ c.db = "failed" ) =>
                   /\ c.ret[1].status = "error"
                   /\ c.ret[1].task_id = c.task.task_id
                   /\ c.ret[1].error # None
            /\ (c.selected = None) =>
                   /\ inflight = c.before[1].inflight
                   /\ \A a \in AgentIds :
                         (status[a] = "BUSY") =>
                             (c.before[1].status[a] = "BUSY")

\* C19 (amended): execute_task never raises; when there is no idle and
\* capable agent of the requested type or the agent fails, it returns a
\* TaskResult with status error, the task's task_id and an error message
\* (from the manager, with agent_id "unknown", when no agent was found or
\* the agent raised); in the no-agent case no agent is invoked.  A failure
\* to record the result changes nothing: the agent's result is returned as
\* the agent produced it.
C19_ErrorResultUnlessRecording ==
    TaskReturned =>
        LET c == mcall[1]
        IN  /\ ~c.raised
            /\ c.ret # None
            /\ (c.selected = None \/ c.outcome \in {"raises", "error_result"})
                  => /\ c.ret[1].status = "error"
                     /\ c.ret[1].task_id = c.task.task_id
                     /\ c.ret[1].error # None
            /\ (c.selected = None \/ c.outcome = "raises")
                  => (c.ret[1].agent_id = "unknown")
            /\ (c.selected = None) =>
                   /\ inflight = c.before[1].inflight
                   /\ \A a \in AgentIds :
                         (status[a] = "BUSY") =>
                             (c.before[1].status[a] = "BUSY")
            /\ (c.selected # None /\ c.outcome # "raises") =>
                   (c.ret[1] = AgentResult(c.task.task_id, c.selected[1],
                                           c.outcome))

C19_Witness ==
    /\ TaskReturned
    /\ mcall[1].selected = None
    /\ mcall[1].task.agent_type = "trader"
    /\ mcall[1].task.task_type = "trading"
    /\ mcall[1].task.market = "US"
    /\ mcall[1].before[1].status["a4"] = "BUSY"
    /\ mcall[1].ret[1].status = "error"
    /\ mcall[1].ret[1].task_id = 2

\* the latest select_agent call, under the given strategy, on a list of at
\* least two agents
Selected(strat) ==
    /\ mcall # None /\ mcall[1].op = "select_agent"
    /\ strategy = strat /\ Len(mcall[1].list) >= 2

\* C21: with the least_busy strategy select_agent returns an agent of the
\* list with the fewest current tasks, and of several such agents the one
\* that comes first in the list.
C21_LeastBusy ==
    Selected("least_busy") =>
        LET list == mcall[1].list
            i == IndexOf(mcall[1].list, mcall[1].ret[1]) + 1
        IN  /\ ~mcall[1].raised
            /\ \E k \in 1..Len(list) : list[k] = mcall[1].ret[1]
            /\ \A j \in 1..Len(list) :
                  CurrentTasks(list[i]) <= CurrentTasks(list[j])
            /\ \A j \in 1..(i - 1) :
                  CurrentTasks(list[j]) > CurrentTasks(list[i])

C21_Witness ==
    /\ Selected("least_busy")
    /\ mcall[1].list = <<"a3", "a1", "a2">>
    /\ CurrentTasks("a3") = 2
    /\ CurrentTasks("a1") = 1
    /\ CurrentTasks("a2") = 1
    /\ mcall[1].ret = Some("a1")

\* C22: with the best_performance strategy select_agent returns an agent of
\* the list with the highest success_rate, and of several such agents the
\* one that comes first in the list.
C22_BestPerformance ==
    Selected("best_performance") =>
        LET list == mcall[1].list
            i == IndexOf(mcall[1].list, mcall[1].ret[1]) + 1
        IN  /\ ~mcall[1].raised
            /\ \E k \in 1..Len(list) : list[k] = mcall[1].ret[1]
            /\ \A j \in 1..Len(list) :
                  success_rate[list[i]] >= success_rate[list[j]]
            /\ \A j \in 1..(i - 1) :
                  success_rate[list[j]] < success_rate[list[i]]

C22_Witness ==
    /\ Selected("best_performance")
    /\ mcall[1].list = <<"a2", "a3", "a1">>
    /\ success_rate["a2"] = 1
    /\ success_rate["a3"] = 2
    /\ success_rate["a1"] = 2
    /\ mcall[1].ret = Some("a3")

\* C23: select_agent on an empty list fails with an error and changes no
\* balancer state; on a list of one agent it returns that agent under every
\* strategy and leaves every round-robin counter as it was.
C23_EmptyAndSingle ==
    (mcall # None /\ mcall[1].op = "select_agent") =>
        /\ (mcall[1].list = <<>>) =>
              /\ mcall[1].raised
              /\ mcall[1].ret = None
              /\ round_robin_counters = mcall[1].before
        /\ (Len(mcall[1].list) = 1) =>
              /\ ~mcall[1].raised
              /\ mcall[1].ret = Some(mcall[1].list[1])
              /\ round_robin_counters = mcall[1].before

C23_Witness ==
    /\ mcall # None /\ mcall[1].op = "select_agent"
    /\ strategy = "round_robin"
    /\ mcall[1].list = <<"a2">>
    /\ mcall[1].ret = Some("a2")
    /\ mcall[1].before["market_analyst"] = 3
    /\ round_robin_counters["market_analyst"] = 3

\* C24: select_agent calls of concurrent requests take effect one whole call
\* after the other, each with a list of its own length.  Every round_robin
\* call on a list of two or more agents returns the element at index
\* (counter mod length), which is within the list it was given, and leaves
\* the counter of that agent type exactly 1 higher and every other counter
\* as it was, so no increment is lost.
C24_RoundRobinAtomic ==
    Selected("round_robin") =>
        LET list == mcall[1].list
            t == AgentTypeOf(mcall[1].list[1])
        IN  /\ ~mcall[1].raised
            /\ \E k \in 1..Len(list) : list[k] = mcall[1].ret[1]
            /\ IndexOf(list, mcall[1].ret[1]) \in 0..(Len(list) - 1)
            /\ IndexOf(list, mcall[1].ret[1]) = mcall[1].before[t] % Len(list)
            /\ round_robin_counters =
                  [mcall[1].before EXCEPT ![t] = @ + 1]
            /\ round_robin_counters[t] <= calls

C24_Witness ==
    /\ Selected("round_robin")
    /\ mcall[1].list = <<"a3", "a1">>
    /\ mcall[1].before["market_analyst"] = 4
    /\ mcall[1].ret = Some("a3")
    /\ round_robin_counters["market_analyst"] = 5
    /\ calls = 6

\* the agents the health_check call under way has probed and got an answer
\* from
Probed == { ProbeOrder[i] : i \in 1..health.position }

\* C25: health_check returns true exactly when more than 80% of the
\* registered agents answered healthy (5 * healthy > 4 * total): with
\* exactly 80% it returns false, and without agents it returns false.
C25_HealthThreshold ==
    (health.pc = "done") =>
        (health.ret = Some(TRUE)
            <=> (agents # {}
                   /\ 5 * health.healthy_count > 4 * Cardinality(agents)))

\* C26: a probe that raises for one agent does not end the cycle: every
\* other registered agent is probed all the same, the agent whose probe
\* raised counts as unhealthy, and the result of the cycle is the ratio
\* test on the agents that answered healthy.
C26_ProbeFailureIsolated ==
    (health.pc = "done" /\ health.raised_by # None) =>
        /\ Probed \cup {health.raised_by[1]} = agents
        /\ health.ret =
              Some(SystemHealthy(health.healthy_count, Cardinality(agents)))

\* C27: once cleanup has returned, the health-check task has ended (it was
\* cancelled and awaited before any agent was unregistered), no probe is
\* running, the local index and every type list are empty and cleanup did
\* not raise; from then on no probe starts and the loop does not move.
C27_CleanupStopsMonitor ==
    /\ [](CleanupReturned =>
            /\ loop \in {"none", "ended"}
            /\ health.pc # "probing"
            /\ agents = {}
            /\ \A t \in AgentTypes : agent_types[t] = <<>>
            /\ mcall[1].raised = FALSE)
    /\ [][CleanupReturned => (health' = health /\ loop' = loop)]_vars

\* cleanup of a manager with all 12 agents, called while the second probe of
\* a monitoring cycle was running
C27_Witness ==
    /\ CleanupReturned
    /\ Cardinality(mcall[1].before.agents) = 12
    /\ health.pc = "cancelled"
    /\ health.position = 1
    /\ loop = "ended"
    /\ agents = {}

\* initialize has returned and every default agent constructor succeeded
Initialized ==
    /\ mcall # None
    /\ mcall[1].op = "initialize"
    /\ mcall[1].constructed = AgentTypes

\* C28: after initialize on an empty manager with every constructor
\* succeeding, the registry holds exactly 12 agents with distinct ids, one in
\* the type list of each of the 12 agent types, all IDLE, initialize did not
\* raise and the health-check loop has been started.
C28_InitializeDefaults ==
    (Initialized /\ mcall[1].before.agents = {}) =>
        /\ Cardinality(agents) = 12
        /\ Cardinality(AgentTypes) = 12
        /\ \A t \in AgentTypes :
              /\ Len(agent_types[t]) = 1
              /\ agent_types[t][1] \in agents
              /\ AgentTypeOf(agent_types[t][1]) = t
        /\ \A t1, t2 \in AgentTypes :
              agent_types[t1][1] = agent_types[t2][1] => t1 = t2
        /\ \A a \in agents : status[a] = "IDLE"
        /\ mcall[1].raised = FALSE
        /\ loop # "none"

\* initialize has just returned with all 12 agents, the directory write of
\* each of them having failed, and the loop is in its first sleep
C28_Witness ==
    /\ Initialized
    /\ mcall[1].redis = "hset_failed"
    /\ Cardinality(agents) = 12
    /\ directory = {}
    /\ loop = "sleeping"
    /\ health = NoHealthCheck

\* the tasks handed to an agent / answered by an agent in this step
Begun == inflight' \ inflight
Ended == inflight \ inflight'

\* C29: a status changes only along IDLE -> BUSY (with a dispatch to that
\* agent), BUSY -> IDLE (with the completion of its task) or to ERROR or
\* OFFLINE; a dispatch finds its agent IDLE, with no task in flight, and
\* makes it BUSY; the completion of a task makes a BUSY agent IDLE; and an
\* agent that is deregistered becomes OFFLINE.
C29_StatusLifecycle ==
    [][ /\ \A a \in AgentIds :
              status'[a] # status[a] =>
                  \/ /\ status[a] = "IDLE" /\ status'[a] = "BUSY"
                     /\ \E t \in Begun : t.agent = a
                  \/ /\ status[a] = "BUSY" /\ status'[a] = "IDLE"
                     /\ \E t \in Ended : t.agent = a
                  \/ status'[a] \in {"ERROR", "OFFLINE"}
        /\ \A t \in Begun :
              /\ status[t.agent] = "IDLE"
              /\ status'[t.agent] = "BUSY"
              /\ \A u \in inflight : u.agent # t.agent
        /\ \A t \in Ended :
              status[t.agent] = "BUSY" => status'[t.agent] = "IDLE"
        /\ \A a \in agents \ agents' : status'[a] = "OFFLINE"
      ]_vars

\* C30: once cancel_analysis has marked the analysis CANCELLED while its
\* background task is in flight, no analysis_result is stored for the id and
\* the progress record is not RUNNING or COMPLETED again.
C30_CancelIsFinal ==
    analysis.cancelled =>
        /\ ~analysis.result
        /\ analysis.status \notin {"RUNNING", "COMPLETED"}

\* the slots the debate region, research_manager and trader write
DebateOutputs(st) ==
    << st.bull_opinion, st.bear_opinion, st.bull_analysis, st.bear_analysis,
       st.research_decision, st.investment_plan >>

\* C39: the execution of a risk-region stage (risky, safe or neutral
\* analyst) leaves the bull and bear research slots, the research decision
\* and the investment plan as they were before it.
C39_RiskRegionKeepsDebateOutputs ==
    (InTraversal /\ last.node \in RiskNodes) =>
        DebateOutputs(state) = DebateOutputs(last.before)

\* C38: whatever analyst list (1 to 4 analysts) and research depth
\* update_config was given, the round budgets are at most 3 and 3, and a
\* traversal executes at most 1 + 4 + 6 + 1 + 1 + 9 + 1 = 23 stages, fewer
\* than the recursion limit of 100, so that the limit never aborts it.
C38_StageBound ==
    /\ Len(config.selected_analysts) \in 1..4
    /\ config.max_debate_rounds <= 3
    /\ config.max_risk_rounds <= 3
    /\ 1 + 4 + 6 + 1 + 1 + 9 + 1 = 23
    /\ 23 < RecursionLimit
    /\ InTraversal =>
          /\ Graph.logic.max_debate_rounds <= 3
          /\ Graph.logic.max_risk_rounds <= 3
          /\ step_count = Executions
          /\ step_count <= 23
          /\ (node = END) =>
                step_count = 1 + Len(Graph.analysts)
                             + 2 * Graph.logic.max_debate_rounds + 1 + 1
                             + 3 * Graph.logic.max_risk_rounds + 1
    /\ (pc = "raised") => (compiled_graph = None)

\* the longest run: four analysts, research depth 5, the second traversal
\* has reached END after 23 stages
C38_Witness ==
    /\ pc = "ainvoke"
    /\ node = END
    /\ config.research_depth = 5
    /\ Len(Graph.analysts) = 4
    /\ step_count = 23
    /\ state.debate_count = 6
    /\ state.risk_count = 9

\* C37: get_system_status reports as idle_agents the number of registered
\* agents whose status is IDLE, and its total_agents is the sum of the idle,
\* busy, error and offline agents.
C37_StatusCounts ==
    LET report == get_system_status
    IN  /\ report.idle_agents = Cardinality(WithStatus({"IDLE"}))
        /\ report.total_agents =
              report.idle_agents + report.busy_agents + report.error_agents
              + Cardinality(WithStatus({"OFFLINE"}))

\* the places <<type, position>> at which agent a stands in the type lists
PlacesOf(a) ==
    { p \in AgentTypes \X (1..Cardinality(AgentIds)) :
         /\ p[2] <= Len(agent_types[p[1]])
         /\ agent_types[p[1]][p[2]] = a }

\* C33: after any sequence of register_agent and unregister_agent calls
\* every agent of the local index stands exactly once in the type lists, in
\* the list of its own type; every member of a type list is in the index;
\* and the number of indexed agents, as get_system_status reports it, is the
\* sum of the type-list lengths it reports.
C33_IndexMatchesTypeLists ==
    LET report == get_system_status
    IN  /\ \A a \in agents :
              /\ Cardinality(PlacesOf(a)) = 1
              /\ \A p \in PlacesOf(a) : p[1] = AgentTypeOf(a)
        /\ \A a \in AgentIds \ agents : PlacesOf(a) = {}
        /\ report.total_agents = Cardinality(agents)
        /\ report.total_agents =
              Cardinality({ p \in AgentTypes \X (1..Cardinality(AgentIds)) :
                              p[2] <= report.type_statistics[p[1]].total })

\* a1 and the trader a4 were registered and a1 was unregistered again, its
\* Redis delete failing
C33_Witness ==
    /\ Called("unregister_agent")
    /\ mcall[1].agent_id = "a1"
    /\ mcall[1].ret
    /\ mcall[1].redis = "delete_failed"
    /\ mcall[1].before.agents = {"a1", "a4"}
    /\ agents = {"a4"}
    /\ agent_types["market_analyst"] = <<>>
    /\ agent_types["trader"] = <<"a4">>

\* C36: the health-check loop runs until it is cancelled.  A cycle that
\* ended, by an exception of a probe as well, is followed by the sleep and,
\* the sleep over, by the next cycle; the loop ends only by a cancellation;
\* and once a cancellation was requested, in the sleep or in a probe, no
\* further probe starts.
C36_LoopUntilCancelled ==
    /\ [](/\ (loop = "checking" /\ health.pc = "done") => ENABLED LoopSleep
          /\ (loop = "sleeping" /\ calls < MaxCycles) => ENABLED LoopWake
          /\ (loop \in {"cancelling", "ended"}) =>
                /\ ~ENABLED LoopWake
                /\ ~ENABLED Probe
                /\ ~ENABLED HealthCheckReturn)
    /\ [][/\ (loop' = "ended" /\ loop # "ended") => loop = "cancelling"
          /\ (loop = "checking" /\ health.pc = "done" /\ loop' # loop) =>
                loop' \in {"sleeping", "cancelling"}
          /\ (loop \in {"cancelling", "ended"}) =>
                /\ health'.position = health.position
                /\ health'.healthy_count = health.healthy_count
                /\ health'.pc # "probing"]_vars

\* the first cycle on 12 agents was ended by the exception of the third
\* probe, and the loop is in its next sleep
C36_Witness ==
    /\ loop = "sleeping"
    /\ calls = 1
    /\ Cardinality(agents) = 12
    /\ health.pc = "done"
    /\ health.raised_by = Some("news_analyst")
    /\ health.ret = Some(FALSE)
    /\ ENABLED LoopWake

\* C35: a cycle during which the registry changed, and in which no probe
\* raised, is completed by probing, and it returns true when every agent
\* registered at its end was probed and every probe answered healthy (more
\* than 80% of the agents registered at the end are healthy).
C35_OverlapTolerated ==
    (/\ health.pc = "done"
     /\ health.raised_by = None
     /\ SizeChanged(health.order))
    => /\ health.position = Len(health.order)
       /\ (/\ agents # {}
           /\ agents \subseteq
                 { health.order[i] : i \in 1..health.position }
           /\ health.healthy_count = health.position)
          => health.ret = Some(TRUE)

\* C34: register_agent and unregister_agent of one agent id overlapping at
\* a suspension point of register_agent leave the registry consistent: once
\* no registration is in progress, an agent has a directory entry exactly
\* when it is in the local index, and a durable record exactly when it is in
\* the local index.
C34_RaceLeavesRegistryConsistent ==
    registering = None
        => \A a \in AgentIds :
               /\ (a \in directory) <=> (a \in agents)
               /\ (durable[a] > 0) <=> (a \in agents)


\* a node has executed in one of the traversals of this run
NodeHasRun(n) == executed[n] + streamed[n] > 0

\* C32: every progress update that names a stage is emitted at a stage
\* boundary: each stage the background monitor has reported so far has
\* executed in the run (so no stage is reported by elapsed time alone, nor
\* while an earlier stage has not run).
C32_ProgressAtStageBoundaries ==
    \A i \in 1..monitor : \E n \in MonitorStages[i] : NodeHasRun(n)

\* C40: once perform_stock_analysis has written the terminal progress
\* record (COMPLETED at 100, or FAILED at 0), that record is the last write
\* of the analysis: neither the cancelled monitor task nor a stage callback
\* has written a RUNNING record over it.
C40_TerminalRecordStays ==
    /\ (rpc = "completed") =>
          /\ analysis.status = "COMPLETED"
          /\ stored[Len(stored)] = 100
          /\ progress[Len(progress)] = 100
    /\ (rpc = "failed") =>
          /\ analysis.status = "FAILED"
          /\ stored[Len(stored)] = 0

\* C40 witness: the terminal record is written after a monitor that had
\* reported some of its steps, and not all, was cancelled
C40_Witness ==
    /\ rpc = "completed"
    /\ analysis.status = "COMPLETED"
    /\ monitor > 0
    /\ monitor < Len(MonitorSteps)

\* the GraphState a request reaches when it runs alone through the graph of
\* the default configuration and its stages succeed or fail as in oks
RECURSIVE Walk(_, _, _, _)
Walk(n, st, oks, i) ==
    IF i > Len(oks) THEN st
    ELSE LET new == StageBookkeeping(n, NodeFunction(n, st, oks[i], i))
         IN  Walk(NextNode(PeerGraph, n, new), new, oks, i + 1)

RunAlone(oks) == Walk("test_start", create_initial_state, oks, 1)

====
